---- MODULE Spec2Model ----
(***************************************************************************)
(* Model of the Mail Tool Layer of gmail-agent (src/gmail_tools.py): the   *)
(* six tool functions fetch_top_email, fetch_specific_email,               *)
(* reply_to_email, list_emails, get_email_id and send_email, run against a *)
(* remote store (the Gmail service object) whose list, get and send calls  *)
(* may each succeed or raise.  The tools share the module-level service    *)
(* and hold no lock, and the agent of src/chat.py may run several tool     *)
(* calls at once, so the invocations of different threads interleave at    *)
(* their store calls.                                                      *)
(*                                                                         *)
(* Conventions.  A Python str whose content the code inspects or encodes   *)
(* (header names and values, subjects, addresses, texts, base64 data, a    *)
(* decoded body, the raw message) is the sequence of its Unicode code      *)
(* points, and so is every str that ends up in a message (queries and     *)
(* exception texts); bytes are a sequence of 0..255.  A str that is only   *)
(* passed along or compared as a whole (ids, thread ids, MIME types,       *)
(* labels, snippets, the status) is a TLA+ string.  A Python dict is a     *)
(* record                                                                  *)
(* whose domain is the dict's key set, a Python list is a sequence, and    *)
(* the list returned by list_emails is wrapped as [list |-> <<...>>] so    *)
(* that every returned value is a record.  None is the value None.  An     *)
(* expression that may raise evaluates to [exc |-> str(e)] or to           *)
(* [val |-> v].                                                            *)
(***************************************************************************)
EXTENDS Integers, Sequences, FiniteSets, TLC

VARIABLES
  pc,          \* per thread: "idle", "waiting" (blocked in a store call) or "returned"
  op,          \* per thread: the tool it called last
  args,        \* per thread: the arguments of that call
  responses,   \* per thread: what the store answered to the calls of that invocation, in order
  calls,       \* per thread: the store requests that invocation issued, in order
  lookups,     \* per thread: the header values that invocation looked up, one record per message
  result,      \* per thread: the value the tool returned, or [raised |-> str(e)] had it raised
  sendTotal,   \* send requests the store has received, over all invocations
  writerCalls  \* invocations of send_email and reply_to_email so far

vars == <<pc, op, args, responses, calls, lookups, result, sendTotal, writerCalls>>

----------------------------------------------------------------------------
(* Bounds of the model. *)

\* longest header list of a fetched message
MaxHeaders == 2
\* longest part list of a full-format payload
MaxParts == 2
\* most ids in one list response
MaxList == 2
\* most invocations of the two sending tools in one run
MaxWrites == 2

----------------------------------------------------------------------------
(* Python values *)

\* None, told from every str: no str holds the code point -1
None == <<-1>>

\* Python truthiness of None or a str
Truthy(v) == v # None /\ v # <<>>

Min(a, b) == IF a <= b THEN a ELSE b

\* the printable ASCII characters from " " (32) to "_" (95) and from "a" (97) to
\* "~" (126)
PrintableLow ==
  <<" ","!","\"","#","$","%","&","'","(",")","*","+",",","-",".","/",
    "0","1","2","3","4","5","6","7","8","9",":",";","<","=",">","?",
    "@","A","B","C","D","E","F","G","H","I","J","K","L","M","N","O",
    "P","Q","R","S","T","U","V","W","X","Y","Z","[","\\","]","^","_">>

PrintableHigh ==
  <<"a","b","c","d","e","f","g","h","i","j","k","l","m","n","o",
    "p","q","r","s","t","u","v","w","x","y","z","{","|","}","~">>

\* ord(c) of each character of low, which starts at " " (32), and of high,
\* which starts at "a" (97), and of a tab, a line feed and a carriage return
CharCodes(low, high) ==
  [c \in {"\t", "\n", "\r"}
         \cup { low[i] : i \in 1..Len(low) } \cup { high[i] : i \in 1..Len(high) } |->
     IF c = "\t" THEN 9 ELSE IF c = "\n" THEN 10 ELSE IF c = "\r" THEN 13
     ELSE IF \E i \in 1..Len(low) : low[i] = c
     THEN 31 + (CHOOSE i \in 1..Len(low) : low[i] = c)
     ELSE 96 + (CHOOSE i \in 1..Len(high) : high[i] = c)]

OrdOf == CharCodes(PrintableLow, PrintableHigh)

Ord(c) == OrdOf[c]

\* the str written as the sequence of its characters
Str(cs) == [i \in 1..Len(cs) |-> Ord(cs[i])]

\* str(n) of an int n >= 0
RECURSIVE Decimal(_)
Decimal(n) == IF n < 10 THEN <<48 + n>> ELSE Append(Decimal(n \div 10), 48 + (n % 10))

\* str.startswith(prefix)
StartsWith(s, prefix) ==
  Len(s) >= Len(prefix) /\ SubSeq(s, 1, Len(prefix)) = prefix

Last(s) == s[Len(s)]
Front(s) == SubSeq(s, 1, Len(s) - 1)

MinOf(S) == CHOOSE x \in S : \A y \in S : x <= y
MaxOf(S) == CHOOSE x \in S : \A y \in S : y <= x

\* the concatenation of the sequences ss[lo], ..., ss[hi]
RECURSIVE FlatRange(_, _, _)
FlatRange(ss, lo, hi) ==
  IF lo > hi THEN <<>>
  ELSE IF lo = hi THEN ss[lo]
  ELSE LET mid == (lo + hi) \div 2 IN FlatRange(ss, lo, mid) \o FlatRange(ss, mid + 1, hi)

\* "".join(ss)
Flat(ss) == FlatRange(ss, 1, Len(ss))

\* the indices 1..n as a sequence
Indices(n) == [i \in 1..n |-> i]

\* s.isascii()
IsAscii(s) == \A i \in 1..Len(s) : s[i] < 128

\* a lone surrogate code point
IsSurrogate(c) == c >= 55296 /\ c <= 57343

\* email.utils._has_surrogates(s)
HasSurrogates(s) == \E i \in 1..Len(s) : IsSurrogate(s[i])

\* str.isspace() on one character
IsSpace(c) ==
  \/ (c >= 9 /\ c <= 13) \/ (c >= 28 /\ c <= 32)
  \/ c \in {133, 160, 5760, 8232, 8233, 8239, 8287, 12288}
  \/ (c >= 8192 /\ c <= 8202)

\* the characters at which str.splitlines() breaks a line
IsLineBreak(c) == c \in {10, 11, 12, 13, 28, 29, 30, 133, 8232, 8233}

LowerHex == Str(<<"0","1","2","3","4","5","6","7","8","9","a","b","c","d","e","f">>)
UpperHex == Str(<<"0","1","2","3","4","5","6","7","8","9","A","B","C","D","E","F">>)

\* the last n hexadecimal digits of v, in the digits of hex
RECURSIVE HexDigitsOf(_, _, _)
HexDigitsOf(v, n, hex) ==
  IF n = 0 THEN <<>> ELSE Append(HexDigitsOf(v \div 16, n - 1, hex), hex[(v % 16) + 1])

----------------------------------------------------------------------------
(* str.lower(), as lines 30-32, 133-142, 205-207 and 254-255 apply it to a  *)
(* header name                                                              *)

\* <<first, last, step, delta>>: the code points first, first+step, ..., last
\* lower-case to themselves plus delta
LowerRuns ==
  <<
    <<65,90,1,32>>, <<192,214,1,32>>, <<216,222,1,32>>, <<256,302,2,1>>, <<306,310,2,1>>,
    <<313,327,2,1>>, <<330,374,2,1>>, <<376,376,1,-121>>, <<377,381,2,1>>, <<385,385,1,210>>,
    <<386,388,2,1>>, <<390,390,1,206>>, <<391,391,1,1>>, <<393,394,1,205>>, <<395,395,1,1>>,
    <<398,398,1,79>>, <<399,399,1,202>>, <<400,400,1,203>>, <<401,401,1,1>>, <<403,403,1,205>>,
    <<404,404,1,207>>, <<406,406,1,211>>, <<407,407,1,209>>, <<408,408,1,1>>, <<412,412,1,211>>,
    <<413,413,1,213>>, <<415,415,1,214>>, <<416,420,2,1>>, <<422,422,1,218>>, <<423,423,1,1>>,
    <<425,425,1,218>>, <<428,428,1,1>>, <<430,430,1,218>>, <<431,431,1,1>>, <<433,434,1,217>>,
    <<435,437,2,1>>, <<439,439,1,219>>, <<440,440,1,1>>, <<444,444,1,1>>, <<452,452,1,2>>,
    <<453,453,1,1>>, <<455,455,1,2>>, <<456,456,1,1>>, <<458,458,1,2>>, <<459,475,2,1>>,
    <<478,494,2,1>>, <<497,497,1,2>>, <<498,500,2,1>>, <<502,502,1,-97>>, <<503,503,1,-56>>,
    <<504,542,2,1>>, <<544,544,1,-130>>, <<546,562,2,1>>, <<570,570,1,10795>>, <<571,571,1,1>>,
    <<573,573,1,-163>>, <<574,574,1,10792>>, <<577,577,1,1>>, <<579,579,1,-195>>, <<580,580,1,69>>,
    <<581,581,1,71>>, <<582,590,2,1>>, <<880,882,2,1>>, <<886,886,1,1>>, <<895,895,1,116>>,
    <<902,902,1,38>>, <<904,906,1,37>>, <<908,908,1,64>>, <<910,911,1,63>>, <<913,929,1,32>>,
    <<931,939,1,32>>, <<975,975,1,8>>, <<984,1006,2,1>>, <<1012,1012,1,-60>>, <<1015,1015,1,1>>,
    <<1017,1017,1,-7>>, <<1018,1018,1,1>>, <<1021,1023,1,-130>>, <<1024,1039,1,80>>, <<1040,1071,1,32>>,
    <<1120,1152,2,1>>, <<1162,1214,2,1>>, <<1216,1216,1,15>>, <<1217,1229,2,1>>, <<1232,1326,2,1>>,
    <<1329,1366,1,48>>, <<4256,4293,1,7264>>, <<4295,4295,1,7264>>, <<4301,4301,1,7264>>, <<5024,5103,1,38864>>,
    <<5104,5109,1,8>>, <<7312,7354,1,-3008>>, <<7357,7359,1,-3008>>, <<7680,7828,2,1>>, <<7838,7838,1,-7615>>,
    <<7840,7934,2,1>>, <<7944,7951,1,-8>>, <<7960,7965,1,-8>>, <<7976,7983,1,-8>>, <<7992,7999,1,-8>>,
    <<8008,8013,1,-8>>, <<8025,8031,2,-8>>, <<8040,8047,1,-8>>, <<8072,8079,1,-8>>, <<8088,8095,1,-8>>,
    <<8104,8111,1,-8>>, <<8120,8121,1,-8>>, <<8122,8123,1,-74>>, <<8124,8124,1,-9>>, <<8136,8139,1,-86>>,
    <<8140,8140,1,-9>>, <<8152,8153,1,-8>>, <<8154,8155,1,-100>>, <<8168,8169,1,-8>>, <<8170,8171,1,-112>>,
    <<8172,8172,1,-7>>, <<8184,8185,1,-128>>, <<8186,8187,1,-126>>, <<8188,8188,1,-9>>, <<8486,8486,1,-7517>>,
    <<8490,8490,1,-8383>>, <<8491,8491,1,-8262>>, <<8498,8498,1,28>>, <<8544,8559,1,16>>, <<8579,8579,1,1>>,
    <<9398,9423,1,26>>, <<11264,11311,1,48>>, <<11360,11360,1,1>>, <<11362,11362,1,-10743>>, <<11363,11363,1,-3814>>,
    <<11364,11364,1,-10727>>, <<11367,11371,2,1>>, <<11373,11373,1,-10780>>, <<11374,11374,1,-10749>>, <<11375,11375,1,-10783>>,
    <<11376,11376,1,-10782>>, <<11378,11378,1,1>>, <<11381,11381,1,1>>, <<11390,11391,1,-10815>>, <<11392,11490,2,1>>,
    <<11499,11501,2,1>>, <<11506,11506,1,1>>, <<42560,42604,2,1>>, <<42624,42650,2,1>>, <<42786,42798,2,1>>,
    <<42802,42862,2,1>>, <<42873,42875,2,1>>, <<42877,42877,1,-35332>>, <<42878,42886,2,1>>, <<42891,42891,1,1>>,
    <<42893,42893,1,-42280>>, <<42896,42898,2,1>>, <<42902,42920,2,1>>, <<42922,42922,1,-42308>>, <<42923,42923,1,-42319>>,
    <<42924,42924,1,-42315>>, <<42925,42925,1,-42305>>, <<42926,42926,1,-42308>>, <<42928,42928,1,-42258>>, <<42929,42929,1,-42282>>,
    <<42930,42930,1,-42261>>, <<42931,42931,1,928>>, <<42932,42946,2,1>>, <<42948,42948,1,-48>>, <<42949,42949,1,-42307>>,
    <<42950,42950,1,-35384>>, <<42951,42953,2,1>>, <<42960,42960,1,1>>, <<42966,42968,2,1>>, <<42997,42997,1,1>>,
    <<65313,65338,1,32>>, <<66560,66599,1,40>>, <<66736,66771,1,40>>, <<66928,66938,1,39>>, <<66940,66954,1,39>>,
    <<66956,66962,1,39>>, <<66964,66965,1,39>>, <<68736,68786,1,64>>, <<71840,71871,1,32>>, <<93760,93791,1,32>>,
    <<125184,125217,1,34>>
  >>

\* <<first, last>>: the code points that are cased and not case-ignorable
CasedRanges ==
  <<
    <<65,90>>, <<97,122>>, <<170,170>>, <<181,181>>, <<186,186>>, <<192,214>>, <<216,246>>, <<248,442>>,
    <<444,447>>, <<452,659>>, <<661,687>>, <<880,883>>, <<886,887>>, <<891,893>>, <<895,895>>, <<902,902>>,
    <<904,906>>, <<908,908>>, <<910,929>>, <<931,1013>>, <<1015,1153>>, <<1162,1327>>, <<1329,1366>>, <<1376,1416>>,
    <<4256,4293>>, <<4295,4295>>, <<4301,4301>>, <<4304,4346>>, <<4349,4351>>, <<5024,5109>>, <<5112,5117>>, <<7296,7304>>,
    <<7312,7354>>, <<7357,7359>>, <<7424,7467>>, <<7531,7543>>, <<7545,7578>>, <<7680,7957>>, <<7960,7965>>, <<7968,8005>>,
    <<8008,8013>>, <<8016,8023>>, <<8025,8025>>, <<8027,8027>>, <<8029,8029>>, <<8031,8061>>, <<8064,8116>>, <<8118,8124>>,
    <<8126,8126>>, <<8130,8132>>, <<8134,8140>>, <<8144,8147>>, <<8150,8155>>, <<8160,8172>>, <<8178,8180>>, <<8182,8188>>,
    <<8450,8450>>, <<8455,8455>>, <<8458,8467>>, <<8469,8469>>, <<8473,8477>>, <<8484,8484>>, <<8486,8486>>, <<8488,8488>>,
    <<8490,8493>>, <<8495,8500>>, <<8505,8505>>, <<8508,8511>>, <<8517,8521>>, <<8526,8526>>, <<8544,8575>>, <<8579,8580>>,
    <<9398,9449>>, <<11264,11387>>, <<11390,11492>>, <<11499,11502>>, <<11506,11507>>, <<11520,11557>>, <<11559,11559>>, <<11565,11565>>,
    <<42560,42605>>, <<42624,42651>>, <<42786,42863>>, <<42865,42887>>, <<42891,42894>>, <<42896,42954>>, <<42960,42961>>, <<42963,42963>>,
    <<42965,42969>>, <<42997,42998>>, <<43002,43002>>, <<43824,43866>>, <<43872,43880>>, <<43888,43967>>, <<64256,64262>>, <<64275,64279>>,
    <<65313,65338>>, <<65345,65370>>, <<66560,66639>>, <<66736,66771>>, <<66776,66811>>, <<66928,66938>>, <<66940,66954>>, <<66956,66962>>,
    <<66964,66965>>, <<66967,66977>>, <<66979,66993>>, <<66995,67001>>, <<67003,67004>>, <<68736,68786>>, <<68800,68850>>, <<71840,71903>>,
    <<93760,93823>>, <<119808,119892>>, <<119894,119964>>, <<119966,119967>>, <<119970,119970>>, <<119973,119974>>, <<119977,119980>>, <<119982,119993>>,
    <<119995,119995>>, <<119997,120003>>, <<120005,120069>>, <<120071,120074>>, <<120077,120084>>, <<120086,120092>>, <<120094,120121>>, <<120123,120126>>,
    <<120128,120132>>, <<120134,120134>>, <<120138,120144>>, <<120146,120485>>, <<120488,120512>>, <<120514,120538>>, <<120540,120570>>, <<120572,120596>>,
    <<120598,120628>>, <<120630,120654>>, <<120656,120686>>, <<120688,120712>>, <<120714,120744>>, <<120746,120770>>, <<120772,120779>>, <<122624,122633>>,
    <<122635,122654>>, <<125184,125251>>, <<127280,127305>>, <<127312,127337>>, <<127344,127369>>
  >>

\* <<first, last>>: the case-ignorable code points
CaseIgnorableRanges ==
  <<
    <<39,39>>, <<46,46>>, <<58,58>>, <<94,94>>, <<96,96>>, <<168,168>>, <<173,173>>, <<175,175>>,
    <<180,180>>, <<183,184>>, <<688,879>>, <<884,885>>, <<890,890>>, <<900,901>>, <<903,903>>, <<1155,1161>>,
    <<1369,1369>>, <<1375,1375>>, <<1425,1469>>, <<1471,1471>>, <<1473,1474>>, <<1476,1477>>, <<1479,1479>>, <<1524,1524>>,
    <<1536,1541>>, <<1552,1562>>, <<1564,1564>>, <<1600,1600>>, <<1611,1631>>, <<1648,1648>>, <<1750,1757>>, <<1759,1768>>,
    <<1770,1773>>, <<1807,1807>>, <<1809,1809>>, <<1840,1866>>, <<1958,1968>>, <<2027,2037>>, <<2042,2042>>, <<2045,2045>>,
    <<2070,2093>>, <<2137,2139>>, <<2184,2184>>, <<2192,2193>>, <<2200,2207>>, <<2249,2306>>, <<2362,2362>>, <<2364,2364>>,
    <<2369,2376>>, <<2381,2381>>, <<2385,2391>>, <<2402,2403>>, <<2417,2417>>, <<2433,2433>>, <<2492,2492>>, <<2497,2500>>,
    <<2509,2509>>, <<2530,2531>>, <<2558,2558>>, <<2561,2562>>, <<2620,2620>>, <<2625,2626>>, <<2631,2632>>, <<2635,2637>>,
    <<2641,2641>>, <<2672,2673>>, <<2677,2677>>, <<2689,2690>>, <<2748,2748>>, <<2753,2757>>, <<2759,2760>>, <<2765,2765>>,
    <<2786,2787>>, <<2810,2815>>, <<2817,2817>>, <<2876,2876>>, <<2879,2879>>, <<2881,2884>>, <<2893,2893>>, <<2901,2902>>,
    <<2914,2915>>, <<2946,2946>>, <<3008,3008>>, <<3021,3021>>, <<3072,3072>>, <<3076,3076>>, <<3132,3132>>, <<3134,3136>>,
    <<3142,3144>>, <<3146,3149>>, <<3157,3158>>, <<3170,3171>>, <<3201,3201>>, <<3260,3260>>, <<3263,3263>>, <<3270,3270>>,
    <<3276,3277>>, <<3298,3299>>, <<3328,3329>>, <<3387,3388>>, <<3393,3396>>, <<3405,3405>>, <<3426,3427>>, <<3457,3457>>,
    <<3530,3530>>, <<3538,3540>>, <<3542,3542>>, <<3633,3633>>, <<3636,3642>>, <<3654,3662>>, <<3761,3761>>, <<3764,3772>>,
    <<3782,3782>>, <<3784,3789>>, <<3864,3865>>, <<3893,3893>>, <<3895,3895>>, <<3897,3897>>, <<3953,3966>>, <<3968,3972>>,
    <<3974,3975>>, <<3981,3991>>, <<3993,4028>>, <<4038,4038>>, <<4141,4144>>, <<4146,4151>>, <<4153,4154>>, <<4157,4158>>,
    <<4184,4185>>, <<4190,4192>>, <<4209,4212>>, <<4226,4226>>, <<4229,4230>>, <<4237,4237>>, <<4253,4253>>, <<4348,4348>>,
    <<4957,4959>>, <<5906,5908>>, <<5938,5939>>, <<5970,5971>>, <<6002,6003>>, <<6068,6069>>, <<6071,6077>>, <<6086,6086>>,
    <<6089,6099>>, <<6103,6103>>, <<6109,6109>>, <<6155,6159>>, <<6211,6211>>, <<6277,6278>>, <<6313,6313>>, <<6432,6434>>,
    <<6439,6440>>, <<6450,6450>>, <<6457,6459>>, <<6679,6680>>, <<6683,6683>>, <<6742,6742>>, <<6744,6750>>, <<6752,6752>>,
    <<6754,6754>>, <<6757,6764>>, <<6771,6780>>, <<6783,6783>>, <<6823,6823>>, <<6832,6862>>, <<6912,6915>>, <<6964,6964>>,
    <<6966,6970>>, <<6972,6972>>, <<6978,6978>>, <<7019,7027>>, <<7040,7041>>, <<7074,7077>>, <<7080,7081>>, <<7083,7085>>,
    <<7142,7142>>, <<7144,7145>>, <<7149,7149>>, <<7151,7153>>, <<7212,7219>>, <<7222,7223>>, <<7288,7293>>, <<7376,7378>>,
    <<7380,7392>>, <<7394,7400>>, <<7405,7405>>, <<7412,7412>>, <<7416,7417>>, <<7468,7530>>, <<7544,7544>>, <<7579,7679>>,
    <<8125,8125>>, <<8127,8129>>, <<8141,8143>>, <<8157,8159>>, <<8173,8175>>, <<8189,8190>>, <<8203,8207>>, <<8216,8217>>,
    <<8228,8228>>, <<8231,8231>>, <<8234,8238>>, <<8288,8292>>, <<8294,8303>>, <<8305,8305>>, <<8319,8319>>, <<8336,8348>>,
    <<8400,8432>>, <<11388,11389>>, <<11503,11505>>, <<11631,11631>>, <<11647,11647>>, <<11744,11775>>, <<11823,11823>>, <<12293,12293>>,
    <<12330,12333>>, <<12337,12341>>, <<12347,12347>>, <<12441,12446>>, <<12540,12542>>, <<40981,40981>>, <<42232,42237>>, <<42508,42508>>,
    <<42607,42610>>, <<42612,42621>>, <<42623,42623>>, <<42652,42655>>, <<42736,42737>>, <<42752,42785>>, <<42864,42864>>, <<42888,42890>>,
    <<42994,42996>>, <<43000,43001>>, <<43010,43010>>, <<43014,43014>>, <<43019,43019>>, <<43045,43046>>, <<43052,43052>>, <<43204,43205>>,
    <<43232,43249>>, <<43263,43263>>, <<43302,43309>>, <<43335,43345>>, <<43392,43394>>, <<43443,43443>>, <<43446,43449>>, <<43452,43453>>,
    <<43471,43471>>, <<43493,43494>>, <<43561,43566>>, <<43569,43570>>, <<43573,43574>>, <<43587,43587>>, <<43596,43596>>, <<43632,43632>>,
    <<43644,43644>>, <<43696,43696>>, <<43698,43700>>, <<43703,43704>>, <<43710,43711>>, <<43713,43713>>, <<43741,43741>>, <<43756,43757>>,
    <<43763,43764>>, <<43766,43766>>, <<43867,43871>>, <<43881,43883>>, <<44005,44005>>, <<44008,44008>>, <<44013,44013>>, <<64286,64286>>,
    <<64434,64450>>, <<65024,65039>>, <<65043,65043>>, <<65056,65071>>, <<65106,65106>>, <<65109,65109>>, <<65279,65279>>, <<65287,65287>>,
    <<65294,65294>>, <<65306,65306>>, <<65342,65342>>, <<65344,65344>>, <<65392,65392>>, <<65438,65439>>, <<65507,65507>>, <<65529,65531>>,
    <<66045,66045>>, <<66272,66272>>, <<66422,66426>>, <<67456,67461>>, <<67463,67504>>, <<67506,67514>>, <<68097,68099>>, <<68101,68102>>,
    <<68108,68111>>, <<68152,68154>>, <<68159,68159>>, <<68325,68326>>, <<68900,68903>>, <<69291,69292>>, <<69446,69456>>, <<69506,69509>>,
    <<69633,69633>>, <<69688,69702>>, <<69744,69744>>, <<69747,69748>>, <<69759,69761>>, <<69811,69814>>, <<69817,69818>>, <<69821,69821>>,
    <<69826,69826>>, <<69837,69837>>, <<69888,69890>>, <<69927,69931>>, <<69933,69940>>, <<70003,70003>>, <<70016,70017>>, <<70070,70078>>,
    <<70089,70092>>, <<70095,70095>>, <<70191,70193>>, <<70196,70196>>, <<70198,70199>>, <<70206,70206>>, <<70367,70367>>, <<70371,70378>>,
    <<70400,70401>>, <<70459,70460>>, <<70464,70464>>, <<70502,70508>>, <<70512,70516>>, <<70712,70719>>, <<70722,70724>>, <<70726,70726>>,
    <<70750,70750>>, <<70835,70840>>, <<70842,70842>>, <<70847,70848>>, <<70850,70851>>, <<71090,71093>>, <<71100,71101>>, <<71103,71104>>,
    <<71132,71133>>, <<71219,71226>>, <<71229,71229>>, <<71231,71232>>, <<71339,71339>>, <<71341,71341>>, <<71344,71349>>, <<71351,71351>>,
    <<71453,71455>>, <<71458,71461>>, <<71463,71467>>, <<71727,71735>>, <<71737,71738>>, <<71995,71996>>, <<71998,71998>>, <<72003,72003>>,
    <<72148,72151>>, <<72154,72155>>, <<72160,72160>>, <<72193,72202>>, <<72243,72248>>, <<72251,72254>>, <<72263,72263>>, <<72273,72278>>,
    <<72281,72283>>, <<72330,72342>>, <<72344,72345>>, <<72752,72758>>, <<72760,72765>>, <<72767,72767>>, <<72850,72871>>, <<72874,72880>>,
    <<72882,72883>>, <<72885,72886>>, <<73009,73014>>, <<73018,73018>>, <<73020,73021>>, <<73023,73029>>, <<73031,73031>>, <<73104,73105>>,
    <<73109,73109>>, <<73111,73111>>, <<73459,73460>>, <<78896,78904>>, <<92912,92916>>, <<92976,92982>>, <<92992,92995>>, <<94031,94031>>,
    <<94095,94111>>, <<94176,94177>>, <<94179,94180>>, <<110576,110579>>, <<110581,110587>>, <<110589,110590>>, <<113821,113822>>, <<113824,113827>>,
    <<118528,118573>>, <<118576,118598>>, <<119143,119145>>, <<119155,119170>>, <<119173,119179>>, <<119210,119213>>, <<119362,119364>>, <<121344,121398>>,
    <<121403,121452>>, <<121461,121461>>, <<121476,121476>>, <<121499,121503>>, <<121505,121519>>, <<122880,122886>>, <<122888,122904>>, <<122907,122913>>,
    <<122915,122916>>, <<122918,122922>>, <<123184,123197>>, <<123566,123566>>, <<123628,123631>>, <<125136,125142>>, <<125252,125259>>, <<127995,127999>>,
    <<917505,917505>>, <<917536,917631>>, <<917760,917999>>
  >>

InRanges(ranges, c) == \E i \in 1..Len(ranges) : ranges[i][1] <= c /\ c <= ranges[i][2]

\* c lower-cased by the runs: c plus the delta of the run it belongs to
LowerBy(runs, c) ==
  LET hit == { i \in 1..Len(runs) :
                 /\ runs[i][1] <= c /\ c <= runs[i][2]
                 /\ (c - runs[i][1]) % runs[i][3] = 0 }
  IN IF hit = {} THEN c ELSE c + runs[CHOOSE i \in hit : TRUE][4]

\* str.lower() on one character other than U+0130 and U+03A3
LowerChar(c) ==
  IF c < 128 THEN (IF c >= 65 /\ c <= 90 THEN c + 32 ELSE c)
  ELSE LowerBy(LowerRuns, c)

\* the capital sigma at s[i] ends a word: the nearest character before it that
\* is not case-ignorable is cased, and the nearest such character after it, if
\* any, is not
EndsWord(ignorable, cased, s, i) ==
  LET before == { j \in 1..(i - 1) : ~InRanges(ignorable, s[j]) }
      after == { k \in (i + 1)..Len(s) : ~InRanges(ignorable, s[k]) }
  IN /\ before # {} /\ InRanges(cased, s[MaxOf(before)])
     /\ (after = {} \/ ~InRanges(cased, s[MinOf(after)]))

FinalSigma(s, i) == EndsWord(CaseIgnorableRanges, CasedRanges, s, i)

\* str.lower()
Lower(s) ==
  Flat([i \in 1..Len(s) |->
          IF s[i] = 304 THEN <<105, 775>>
          ELSE IF s[i] = 931 THEN (IF FinalSigma(s, i) THEN <<962>> ELSE <<963>>)
          ELSE <<LowerChar(s[i])>>])

----------------------------------------------------------------------------
(* base64.urlsafe_b64decode(data).decode('utf-8'), as lines 42 and 46 (and  *)
(* 95 and 99) apply it to the data of a body.                              *)

\* the value of a character of the standard base64 alphabet, -1 for any other
B64Value(c) ==
  IF c >= 65 /\ c <= 90 THEN c - 65
  ELSE IF c >= 97 /\ c <= 122 THEN c - 71
  ELSE IF c >= 48 /\ c <= 57 THEN c + 4
  ELSE IF c = 43 THEN 62
  ELSE IF c = 47 THEN 63
  ELSE -1

\* urlsafe_b64decode maps "-" to "+" and "_" to "/"
UrlsafeTranslate(s) ==
  [i \in 1..Len(s) |-> IF s[i] = 45 THEN 43 ELSE IF s[i] = 95 THEN 47 ELSE s[i]]

\* binascii.a2b_base64 in its default, non-strict mode, which skips every
\* character outside the alphabet.  Decoding stops at the "=" that completes a
\* quad: the first after three data characters, the second after two.
B64Stop(s) ==
  { i \in 1..Len(s) :
      /\ s[i] = 61
      /\ LET data == { j \in 1..(i - 1) : B64Value(s[j]) >= 0 }
             quad == Cardinality(data) % 4
             from == IF data = {} THEN 1 ELSE MaxOf(data) + 1
         IN \/ quad = 3
            \/ quad = 2 /\ \E j \in from..(i - 1) : s[j] = 61 }

\* the bytes of the data characters vs, a last group of two or three included
B64Bytes(vs) ==
  LET m == Len(vs)
      n == (3 * (m \div 4)) + (IF m % 4 = 2 THEN 1 ELSE IF m % 4 = 3 THEN 2 ELSE 0)
  IN [k \in 1..n |->
        LET g == 4 * ((k - 1) \div 3)
            r == (k - 1) % 3
        IN IF r = 0 THEN (vs[g + 1] * 4) + (vs[g + 2] \div 16)
           ELSE IF r = 1 THEN ((vs[g + 2] % 16) * 16) + (vs[g + 3] \div 4)
           ELSE ((vs[g + 3] % 4) * 64) + vs[g + 4]]

\* the end of a2b_base64: the bytes of the data characters vs, or binascii.Error
\* when decoding did not stop at padding and vs is not a whole number of quads
A2bFinish(vs, stopped) ==
  IF stopped \/ Len(vs) % 4 = 0
  THEN [val |-> B64Bytes(vs)]
  ELSE IF Len(vs) % 4 = 1
  THEN [exc |-> Str(<<"I","n","v","a","l","i","d"," ","b","a","s","e","6","4","-","e","n","c",
                  "o","d","e","d"," ","s","t","r","i","n","g",":"," ","n","u","m","b","e","r",
                  " ","o","f"," ","d","a","t","a"," ","c","h","a","r","a","c","t","e","r","s",
                  " ","(">>)
                \o Decimal((Len(vs) \div 4) * 4 + 1)
                \o Str(<<")"," ","c","a","n","n","o","t"," ","b","e"," ","1"," ","m","o","r",
                     "e"," ","t","h","a","n"," ","a"," ","m","u","l","t","i","p","l","e"," ",
                     "o","f"," ","4">>)]
  ELSE [exc |-> Str(<<"I","n","c","o","r","r","e","c","t"," ","p","a","d","d","i","n","g">>)]

\* a2b_base64 of t, where stop holds the positions at which decoding may stop:
\* the data characters before the first of them are decoded
A2bUpTo(t, stop) ==
  A2bFinish(SelectSeq([i \in 1..(IF stop = {} THEN Len(t) ELSE MinOf(stop) - 1) |->
                         B64Value(t[i])],
                      LAMBDA v : v >= 0),
            stop # {})

A2bBase64(t) == A2bUpTo(t, B64Stop(t))

\* base64.urlsafe_b64decode of a str: the bytes, or ValueError for a character
\* that is not ASCII, or binascii.Error
UrlsafeB64Decode(s) ==
  IF ~IsAscii(s)
  THEN [exc |-> Str(<<"s","t","r","i","n","g"," ","a","r","g","u","m","e","n","t"," ","s","h",
                  "o","u","l","d"," ","c","o","n","t","a","i","n"," ","o","n","l","y"," ","A",
                  "S","C","I","I"," ","c","h","a","r","a","c","t","e","r","s">>)]
  ELSE A2bBase64(UrlsafeTranslate(s))

IsContinuation(b) == b >= 128 /\ b < 192

\* The verdict of the decoder on the sequence that starts at byte i of bs:
\* [n, cp]: n bytes encode code point cp; [bad, why]: an error covering bad
\* bytes (0: all that is left).
Utf8At(bs, i) ==
  LET ch == bs[i]
      left == Len(bs) - i + 1
      ch2 == bs[i + 1]
      ch3 == bs[i + 2]
      ch4 == bs[i + 3]
      start == [bad |-> 1, why |-> "start"]
      cont(k) == [bad |-> k, why |-> "continuation"]
      short == [bad |-> 0, why |-> "end"]
  IN
  IF ch < 128 THEN [n |-> 1, cp |-> ch]
  ELSE IF ch < 224 THEN
    IF ch < 194 THEN start
    ELSE IF left < 2 THEN short
    ELSE IF ~IsContinuation(ch2) THEN cont(1)
    ELSE [n |-> 2, cp |-> ((ch % 32) * 64) + (ch2 % 64)]
  ELSE IF ch < 240 THEN
    IF left < 2 THEN short
    ELSE IF \/ ~IsContinuation(ch2)
            \/ (ch = 224 /\ ch2 < 160)
            \/ (ch = 237 /\ ch2 >= 160) THEN cont(1)
    ELSE IF left < 3 THEN short
    ELSE IF ~IsContinuation(ch3) THEN cont(2)
    ELSE [n |-> 3, cp |-> ((ch % 16) * 4096) + ((ch2 % 64) * 64) + (ch3 % 64)]
  ELSE IF ch < 245 THEN
    IF left < 2 THEN short
    ELSE IF \/ ~IsContinuation(ch2)
            \/ (ch = 240 /\ ch2 < 144)
            \/ (ch = 244 /\ ch2 >= 144) THEN cont(1)
    ELSE IF left < 3 THEN short
    ELSE IF ~IsContinuation(ch3) THEN cont(2)
    ELSE IF left < 4 THEN short
    ELSE IF ~IsContinuation(ch4) THEN cont(3)
    ELSE [n |-> 4, cp |-> ((ch % 8) * 262144) + ((ch2 % 64) * 4096)
                          + ((ch3 % 64) * 64) + (ch4 % 64)]
  ELSE start

\* the reason a UnicodeDecodeError gives for a verdict
Utf8Reason(why) ==
  IF why = "start" THEN Str(<<"i","n","v","a","l","i","d"," ","s","t","a","r","t"," ","b","y",
                          "t","e">>)
  ELSE IF why = "continuation" THEN Str(<<"i","n","v","a","l","i","d"," ","c","o","n","t","i",
                                      "n","u","a","t","i","o","n"," ","b","y","t","e">>)
  ELSE Str(<<"u","n","e","x","p","e","c","t","e","d"," ","e","n","d"," ","o","f"," ","d","a",
         "t","a">>)

\* str(UnicodeDecodeError) for an error at bytes i..j (1-based) of bs
Utf8Error(bs, i, j, reason) ==
  IF j = i
  THEN Str(<<"'","u","t","f","-","8","'"," ","c","o","d","e","c"," ","c","a","n","'","t"," ",
         "d","e","c","o","d","e"," ","b","y","t","e"," ","0","x">>) \o HexDigitsOf(bs[i], 2, LowerHex)
       \o Str(<<" ","i","n"," ","p","o","s","i","t","i","o","n"," ">>) \o Decimal(i - 1) \o Str(<<
                                        ":"," ">>) \o reason
  ELSE Str(<<"'","u","t","f","-","8","'"," ","c","o","d","e","c"," ","c","a","n","'","t"," ",
         "d","e","c","o","d","e"," ","b","y","t","e","s"," ","i","n"," ","p","o","s","i","t",
         "i","o","n"," ">>) \o Decimal(i - 1) \o Str(<<"-">>)
       \o Decimal(j - 1) \o Str(<<":"," ">>) \o reason

\* the UnicodeDecodeError for the verdict r on the sequence at byte i of bs
Utf8Fail(bs, i, r) ==
  [exc |-> Utf8Error(bs, i, IF r.bad = 0 THEN Len(bs) ELSE i + r.bad - 1, Utf8Reason(r.why))]

\* decoding bs, where at[i] is the verdict on the sequence at byte i: the code
\* points, or UnicodeDecodeError for the first byte that neither starts a
\* well-formed sequence nor continues the one before
Utf8DecodeBy(bs, at) ==
  LET IsLead(i) == ~IsContinuation(bs[i])
      Stray(i) ==
        LET leads == { j \in 1..(i - 1) : IsLead(j) } IN
        \/ leads = {}
        \/ "cp" \in DOMAIN at[MaxOf(leads)] /\ MaxOf(leads) + at[MaxOf(leads)].n <= i
      bad == { i \in 1..Len(bs) : IF IsLead(i) THEN "cp" \notin DOMAIN at[i] ELSE Stray(i) }
      leadsAt == SelectSeq(Indices(Len(bs)), IsLead)
  IN IF bad = {}
     THEN [val |-> [k \in 1..Len(leadsAt) |-> at[leadsAt[k]].cp]]
     ELSE Utf8Fail(bs, MinOf(bad), at[MinOf(bad)])

\* bytes.decode('utf-8')
Utf8Decode(bs) == Utf8DecodeBy(bs, [i \in 1..Len(bs) |-> Utf8At(bs, i)])

\* the end of line 42 (and 46, 95, 99): .decode('utf-8') of the decoded bytes,
\* or the exception that decoding the base64 raised
DecodeBytes(b) == IF "exc" \in DOMAIN b THEN b ELSE Utf8Decode(b.val)

\* base64.urlsafe_b64decode(data).decode('utf-8')
DecodeBody(data) == DecodeBytes(UrlsafeB64Decode(data))

----------------------------------------------------------------------------
(* base64.urlsafe_b64encode(message.as_bytes()).decode('utf-8'), as lines   *)
(* 157 and 312 apply it to a MIMEText message: what the email package does *)
(* to the text and to each header value on the way to the raw message.     *)

\* the lines of s, where at holds the positions of its line breaks
LinesAt(s, at) ==
  LET n == Len(s)
      After(k) == IF k = 0 THEN 1
                  ELSE IF s[at[k]] = 13 /\ at[k] < n /\ s[at[k] + 1] = 10 THEN at[k] + 2
                  ELSE at[k] + 1
      whole == [k \in 1..Len(at) |-> SubSeq(s, After(k - 1), at[k] - 1)]
  IN IF After(Len(at)) <= n THEN Append(whole, SubSeq(s, After(Len(at)), n)) ELSE whole

\* str.splitlines(): a line ends at a line break, "\r\n" counting as one
SplitLines(s) ==
  LinesAt(s, SelectSeq(Indices(Len(s)),
                       LAMBDA i : IsLineBreak(s[i]) /\ ~(s[i] = 10 /\ i > 1 /\ s[i - 1] = 13)))

\* str.lstrip()
LStrip(s) ==
  LET text == { i \in 1..Len(s) : ~IsSpace(s[i]) }
  IN IF text = {} THEN <<>> ELSE SubSeq(s, MinOf(text), Len(s))

\* the UTF-8 bytes of one code point
Utf8Char(c) ==
  IF c < 128 THEN <<c>>
  ELSE IF c < 2048 THEN <<192 + (c \div 64), 128 + (c % 64)>>
  ELSE IF c < 65536
  THEN <<224 + (c \div 4096), 128 + ((c \div 64) % 64), 128 + (c % 64)>>
  ELSE <<240 + (c \div 262144), 128 + ((c \div 4096) % 64), 128 + ((c \div 64) % 64),
         128 + (c % 64)>>

\* the UTF-8 bytes of a str without surrogates
Utf8(s) == Flat([i \in 1..Len(s) |-> Utf8Char(s[i])])

\* the character of a 6-bit value in the base64 alphabet that ends in c62, c63
B64Char(v, c62, c63) ==
  IF v < 26 THEN 65 + v
  ELSE IF v < 52 THEN 71 + v
  ELSE IF v < 62 THEN v - 4
  ELSE IF v = 62 THEN c62 ELSE c63

\* base64 of the bytes bs with "=" padding, in the alphabet that ends in c62, c63
B64EncodeWith(bs, c62, c63) ==
  LET n == Len(bs)
      byte(i) == IF i <= n THEN bs[i] ELSE 0
  IN [p \in 1..(4 * ((n + 2) \div 3)) |->
        LET g == 3 * ((p - 1) \div 4)
            r == (p - 1) % 4
        IN IF r = 0 THEN B64Char(byte(g + 1) \div 4, c62, c63)
           ELSE IF r = 1
           THEN B64Char(((byte(g + 1) % 4) * 16) + (byte(g + 2) \div 16), c62, c63)
           ELSE IF r = 2
           THEN IF g + 2 > n THEN 61
                ELSE B64Char(((byte(g + 2) % 16) * 4) + (byte(g + 3) \div 64), c62, c63)
           ELSE IF g + 3 > n THEN 61 ELSE B64Char(byte(g + 3) % 64, c62, c63)]

\* base64.b64encode
B64Encode(bs) == B64EncodeWith(bs, 43, 47)

\* base64.urlsafe_b64encode
UrlsafeB64Encode(bs) == B64EncodeWith(bs, 45, 95)

\* quoprimime: one byte of an encoded word under the "q" encoding
QOctet(b) ==
  IF \/ b \in {45, 33, 42, 43, 47}
     \/ (b >= 48 /\ b <= 57) \/ (b >= 65 /\ b <= 90) \/ (b >= 97 /\ b <= 122)
  THEN <<b>>
  ELSE IF b = 32 THEN <<95>>
  ELSE <<61>> \o HexDigitsOf(b, 2, UpperHex)

QEncode(bs) == Flat([i \in 1..Len(bs) |-> QOctet(bs[i])])

\* quoprimime.header_length and base64mime.header_length
QLength(bs) == Len(QEncode(bs))
BLength(bs) == ((Len(bs) + 2) \div 3) * 4

\* Charset._get_encoder under SHORTEST: base64 when it is the shorter
UseBase64(bs) == BLength(bs) < QLength(bs)

\* header_encode of the chosen encoder: one RFC 2047 encoded word
EncodedWord(b64, bs) ==
  IF bs = <<>> THEN <<>>
  ELSE IF b64 THEN Str(<<"=","?","u","t","f","-","8","?","b","?">>) \o B64Encode(bs) \o Str(<<
                                        "?","=">>)
  ELSE Str(<<"=","?","u","t","f","-","8","?","q","?">>) \o QEncode(bs) \o Str(<<"?","=">>)

WordLength(b64, bs) == IF b64 THEN BLength(bs) ELSE QLength(bs)

\* maxlinelen of Header.encode under the compat32 policy
MaxLineLen == 78

\* len(charset) + RFC2047_CHROME_LEN for the charset utf-8
Rfc2047Extra == 12

\* The state of email.header._ValueFormatter: the lines finished, the chunks
\* [fws, part] of the line being filled, and init, the room the header name
\* takes on the first line.
Chunk(fws, part) == [fws |-> fws, part |-> part]

ChunksStr(cur) == Flat([k \in 1..Len(cur) |-> cur[k].fws \o cur[k].part])

ChunksLen(cur) == Len(ChunksStr(cur))

\* _ValueFormatter.newline
FormatterNewline(f) ==
  LET cur == IF f.cur # <<>> /\ Last(f.cur) = Chunk(<<32>>, <<>>) THEN Front(f.cur) ELSE f.cur
      s == ChunksStr(cur)
      onlyws == f.init = 0 /\ s # <<>> /\ \A i \in 1..Len(s) : IsSpace(s[i])
  IN IF f.init + Len(s) > 0
     THEN IF onlyws /\ f.lines # <<>>
          THEN [lines |-> [f.lines EXCEPT ![Len(f.lines)] = @ \o s], cur |-> <<>>, init |-> 0]
          ELSE [lines |-> Append(f.lines, s), cur |-> <<>>, init |-> 0]
     ELSE [lines |-> f.lines, cur |-> <<>>, init |-> 0]

\* the chunks of cur before which the line may be broken at the split
\* character ch
SplitPoints(cur, ch) ==
  { i \in 2..Len(cur) :
      \/ ch \in {32, 9} /\ cur[i].fws # <<>> /\ cur[i].fws[1] = ch
      \/ cur[i - 1].part # <<>> /\ Last(cur[i - 1].part) = ch }

\* the split characters of Header.encode, in the order they are tried
SplitChars == Str(<<";",","," ","\t">>)

\* the end of _append_chunk for a line that is too long and has no split
\* point: the chunk goes on a line of its own when a header name is ahead of
\* it, behind a blank if it brings none
PushOnNewLine(g, fws, string) ==
  [g EXCEPT !.cur = Append(g.cur, Chunk(IF fws = <<>> THEN <<32>> ELSE fws, string))]

\* the end of _append_chunk for a line that is too long: it is broken before
\* the last chunk at which the first usable character of chars allows it
BreakLine(f, fws, string, cur, chars) ==
  LET usable == { k \in 1..Len(chars) : SplitPoints(cur, chars[k]) # {} } IN
  IF usable = {}
  THEN IF f.init > 0 THEN PushOnNewLine(FormatterNewline(f), fws, string)
       ELSE [f EXCEPT !.cur = cur]
  ELSE LET i == MaxOf(SplitPoints(cur, chars[MinOf(usable)]))
       IN [lines |-> Append(f.lines, ChunksStr(SubSeq(cur, 1, i - 1))),
           cur |-> SubSeq(cur, i, Len(cur)), init |-> 0]

\* _ValueFormatter._append_chunk
AppendChunk(f, fws, string) ==
  LET cur == Append(f.cur, Chunk(fws, string)) IN
  IF f.init + ChunksLen(cur) <= MaxLineLen THEN [f EXCEPT !.cur = cur]
  ELSE BreakLine(f, fws, string, cur, SplitChars)

\* the chunks of s, where at holds the positions at which one starts
ChunksAt(s, at) ==
  LET End(k) == IF k = Len(at) THEN Len(s) ELSE at[k + 1] - 1
      Text(k) == LET text == { i \in at[k]..End(k) : s[i] \notin {32, 9} }
                 IN IF text = {} THEN End(k) + 1 ELSE MinOf(text)
  IN [k \in 1..Len(at) |->
        Chunk(SubSeq(s, at[k], Text(k) - 1), SubSeq(s, Text(k), End(k)))]

\* The chunks re.split makes of an ASCII line: each a run of blanks, empty
\* for a line that starts with text, and the text up to the next blank.
LineChunks(s) ==
  ChunksAt(s, SelectSeq(Indices(Len(s)),
                        LAMBDA i : i = 1 \/ (s[i] \in {32, 9} /\ s[i - 1] \notin {32, 9})))

\* _ValueFormatter._ascii_split: the chunks from the k-th on go in one by one
\* (init is never negative: reading it makes TLC compute the state at each
\* step, not as one nested expression at the end)
RECURSIVE AsciiSplit(_, _, _)
AsciiSplit(f, chunks, k) ==
  IF k > Len(chunks) \/ f.init < 0 THEN f
  ELSE AsciiSplit(AppendChunk(f, chunks[k].fws, chunks[k].part), chunks, k + 1)

\* How many characters from s[i] on go into one encoded word: characters are
\* added while the word is no longer than maxlen; the first line may stay
\* empty, a later line starts with the character that did not fit before.
Fitting(s, i, b64, first, maxlen) ==
  MaxOf({IF first THEN 0 ELSE 1}
        \cup { k \in 1..(Len(s) - i + 1) :
                 WordLength(b64, Utf8(SubSeq(s, i, i + k - 1))) <= maxlen })

\* Charset.header_encode_lines: the characters of s from s[i] on are packed
\* into encoded words that fit maxlen, and the words after the first into the
\* room of a continuation line; a first line on which nothing fits is None.
\* EncodeTake makes the word of the k characters that fit.
RECURSIVE EncodeLines(_, _, _, _, _)
RECURSIVE EncodeTake(_, _, _, _)
EncodeTake(s, i, b64, k) ==
  <<IF k = 0 /\ i + k <= Len(s) THEN None
    ELSE EncodedWord(b64, Utf8(SubSeq(s, i, Min(i + k - 1, Len(s)))))>>
  \o IF i + k > Len(s) THEN <<>>
     ELSE EncodeLines(s, i + k, b64, FALSE, MaxLineLen - 1 - Rfc2047Extra)

EncodeLines(s, i, b64, first, maxlen) == EncodeTake(s, i, b64, Fitting(s, i, b64, first, maxlen))

\* the first encoded line goes into the line being filled, unless it is None
FeedFirst(f, fws, enc) == IF enc[1] # None THEN AppendChunk(f, fws, enc[1]) ELSE f

\* after a newline the last encoded line starts a line, and the lines between
\* the first and the last are whole lines
FeedRest(g, enc) ==
  [lines |-> g.lines \o [k \in 1..(Len(enc) - 2) |-> <<32>> \o enc[k + 1]],
   cur |-> Append(g.cur, Chunk(<<32>>, Last(enc))),
   init |-> g.init]

\* _ValueFormatter.feed of the encoded lines enc
FeedWords(f, fws, enc) ==
  IF Len(enc) = 1 THEN FeedFirst(f, fws, enc)
  ELSE FeedRest(FormatterNewline(FeedFirst(f, fws, enc)), enc)

\* _ValueFormatter.feed for a string that is not ASCII
FeedEncoded(f, fws, string) ==
  FeedWords(f, fws,
            EncodeLines(string, 1, UseBase64(Utf8(string)), TRUE,
                        MaxLineLen - (f.init + ChunksLen(f.cur)) - Rfc2047Extra))

\* Header.encode feeds line k to the formatter g: an ASCII line chunk by chunk,
\* any other as encoded words, the lines after the first behind a blank
FeedLine(g, line, k, ascii) ==
  IF ascii THEN AsciiSplit(g, LineChunks(line), 1)
  ELSE FeedEncoded(g, IF k = 1 THEN <<>> ELSE <<32>>,
                   IF k = 1 THEN line ELSE <<32>> \o LStrip(line))

\* Header.encode feeds the first line, and each further line after a newline
RECURSIVE FeedLines(_, _, _, _)
FeedLines(f, lines, k, ascii) ==
  IF k > Len(lines) \/ f.init < 0 THEN f
  ELSE FeedLines(FeedLine(IF k = 1 THEN f ELSE FormatterNewline(f), lines[k], k, ascii),
                 lines, k + 1, ascii)

\* linesep.join(lines)
JoinLines(lines) ==
  Flat([k \in 1..Len(lines) |-> IF k = 1 THEN lines[1] ELSE <<10>> \o lines[k]])

\* the pattern \n[^ \t]+: of email.header._embedded_header
EmbeddedHeader(v) ==
  \E i \in 1..Len(v) :
    /\ v[i] = 10
    /\ \E j \in (i + 2)..Len(v) :
         /\ v[j] = 58
         /\ \A k \in (i + 1)..(j - 1) : v[k] \notin {32, 9}

\* repr() of one character of an ASCII str quoted with q
ReprChar(c, q) ==
  IF c = q \/ c = 92 THEN <<92, c>>
  ELSE IF c = 9 THEN Str(<<"\\","t">>)
  ELSE IF c = 10 THEN Str(<<"\\","n">>)
  ELSE IF c = 13 THEN Str(<<"\\","r">>)
  ELSE IF c < 32 \/ c = 127 THEN Str(<<"\\","x">>) \o HexDigitsOf(c, 2, LowerHex)
  ELSE <<c>>

\* repr() of an ASCII str
Repr(s) ==
  LET q == IF (\E i \in 1..Len(s) : s[i] = 39) /\ ~(\E i \in 1..Len(s) : s[i] = 34)
           THEN 34 ELSE 39
  IN <<q>> \o Flat([i \in 1..Len(s) |-> ReprChar(s[i], q)]) \o <<q>>

\* the formatter of a header name: the name and ": " take room on its first line
FormatterStart(name) == [lines |-> <<>>, cur |-> <<>>, init |-> Len(name) + 2]

\* the lines of the value go into the formatter
HeaderFeed(name, value, lines) ==
  IF lines = <<>> THEN FormatterStart(name)
  ELSE FeedLines(FormatterStart(name), lines, 1, IsAscii(value))

\* a newline after a value of several lines, and the transition that ends the
\* value
HeaderClose(f, lines) ==
  FormatterNewline([(IF Len(lines) > 1 THEN FormatterNewline(f) ELSE f)
                      EXCEPT !.cur = Append(@, Chunk(<<32>>, <<>>))])

\* the folded value of a header whose value has these lines
HeaderFold(name, value, lines) ==
  JoinLines(HeaderClose(HeaderFeed(name, value, lines), lines).lines)

\* the check Header.encode makes of the folded value v
HeaderChecked(v) ==
  IF EmbeddedHeader(v)
  THEN [exc |-> Str(<<"h","e","a","d","e","r"," ","v","a","l","u","e"," ","a","p","p","e","a",
                  "r","s"," ","t","o"," ","c","o","n","t","a","i","n"," ","a","n"," ","e","m",
                  "b","e","d","d","e","d"," ","h","e","a","d","e","r",":"," ">>) \o Repr(v)]
  ELSE [val |-> v]

\* Header(value, header_name=name).encode(): the folded value, or
\* HeaderParseError
HeaderEncode(name, value) == HeaderChecked(HeaderFold(name, value, SplitLines(value)))

\* the escape repr() gives a character that is not ASCII
CharEscape(c) ==
  IF c < 256 THEN Str(<<"\\","x">>) \o HexDigitsOf(c, 2, LowerHex)
  ELSE IF c < 65536 THEN Str(<<"\\","u">>) \o HexDigitsOf(c, 4, LowerHex)
  ELSE Str(<<"\\","U">>) \o HexDigitsOf(c, 8, LowerHex)

\* str(UnicodeEncodeError) for the characters s[first..last]
EncodeError(codec, s, first, last, reason) ==
  IF first = last
  THEN Str(<<"'">>) \o codec \o Str(<<"'"," ","c","o","d","e","c"," ","c","a","n","'","t"," ",
                                  "e","n","c","o","d","e"," ","c","h","a","r","a","c","t","e",
                                  "r"," ","'">>) \o CharEscape(s[first])
       \o Str(<<"'"," ","i","n"," ","p","o","s","i","t","i","o","n"," ">>) \o Decimal(first - 1) \o Str(<<
                                        ":"," ">>) \o reason
  ELSE Str(<<"'">>) \o codec \o Str(<<"'"," ","c","o","d","e","c"," ","c","a","n","'","t"," ",
                                  "e","n","c","o","d","e"," ","c","h","a","r","a","c","t","e",
                                  "r","s"," ","i","n"," ","p","o","s","i","t","i","o","n"," ">>)
       \o Decimal(first - 1) \o Str(<<"-">>) \o Decimal(last - 1) \o Str(<<":"," ">>) \o reason

\* str.encode('utf-8'): the bytes, or UnicodeEncodeError for the first run of
\* surrogates
Utf8Encode(s) ==
  LET bad == { i \in 1..Len(s) : IsSurrogate(s[i]) } IN
  IF bad = {} THEN [val |-> Utf8(s)]
  ELSE LET first == MinOf(bad)
           rest == { j \in first..Len(s) : ~IsSurrogate(s[j]) }
       IN [exc |-> EncodeError(Str(<<"u","t","f","-","8">>), s, first,
                               IF rest = {} THEN Len(s) ELSE MinOf(rest) - 1,
                               Str(<<"s","u","r","r","o","g","a","t","e","s"," ","n","o","t",
                                 " ","a","l","l","o","w","e","d">>))]

\* str.encode('ascii', 'surrogateescape'): U+DC80..U+DCFF stand for the bytes
\* 128..255; any other character that is not ASCII is an error that covers the
\* run of such characters it starts
AsciiEscapeEncode(s) ==
  LET bad == { i \in 1..Len(s) : s[i] >= 128 /\ ~(s[i] >= 56448 /\ s[i] <= 56575) } IN
  IF bad = {} THEN [val |-> [i \in 1..Len(s) |-> IF s[i] < 128 THEN s[i] ELSE s[i] - 56320]]
  ELSE LET first == MinOf(bad)
           rest == { j \in first..Len(s) : s[j] < 128 }
       IN [exc |-> EncodeError(Str(<<"a","s","c","i","i">>), s, first,
                               IF rest = {} THEN Len(s) ELSE MinOf(rest) - 1,
                               Str(<<"o","r","d","i","n","a","l"," ","n","o","t"," ","i","n",
                                 " ","r","a","n","g","e","(","1","2","8",")">>))]

\* the line of a header whose value folded to h
HeaderLine(name, h) ==
  IF "exc" \in DOMAIN h THEN h ELSE [val |-> name \o Str(<<":"," ">>) \o h.val \o <<10>>]

\* Compat32.fold_binary: the bytes of one header line.  A value with a
\* surrogate is written as it is; any other value goes through Header.encode.
FoldBinary(name, value) ==
  IF HasSurrogates(value) THEN AsciiEscapeEncode(name \o Str(<<":"," ">>) \o value \o <<10>>)
  ELSE HeaderLine(name, HeaderEncode(name, value))

\* BytesGenerator._write_lines: "\r\n" and "\r" in the payload become "\n"
NormalizeNewlines(s) ==
  LET Kept(i) == ~(s[i] = 10 /\ i > 1 /\ s[i - 1] = 13)
      at == SelectSeq(Indices(Len(s)), Kept)
  IN [k \in 1..Len(at) |-> IF s[at[k]] = 13 THEN 10 ELSE s[at[k]]]

\* the bytes that one line of a base64 body encodes
BodyLineBytes == 57

\* base64mime.body_encode: lines of base64, each ended by "\n"
BodyEncode(bs) ==
  Flat([k \in 1..((Len(bs) + BodyLineBytes - 1) \div BodyLineBytes) |->
          B64Encode(SubSeq(bs, (BodyLineBytes * (k - 1)) + 1, Min(BodyLineBytes * k, Len(bs))))
          \o <<10>>])

Header(name, value) == [name |-> name, value |-> value]

\* MIMEText of text that is not ASCII and has the UTF-8 bytes b
MimeBase64(b) ==
  IF "exc" \in DOMAIN b THEN b
  ELSE [val |-> [headers |-> << Header(Str(<<"C","o","n","t","e","n","t","-","T","y","p","e">>), Str(<<
                                        "t","e","x","t","/","p","l","a","i","n",";"," ","c","h",
                                        "a","r","s","e","t","=","\"","u","t","f","-","8","\"">>)),
                                Header(Str(<<"M","I","M","E","-","V","e","r","s","i","o","n">>), Str(<<
                                        "1",".","0">>)),
                                Header(Str(<<"C","o","n","t","e","n","t","-","T","r","a","n",
                                        "s","f","e","r","-","E","n","c","o","d","i","n","g">>), Str(<<
                                        "b","a","s","e","6","4">>)) >>,
                 payload |-> BodyEncode(b.val)]]

\* MIMEText(text): the headers the constructor sets and the payload, or the
\* UnicodeEncodeError of set_payload.  ASCII text stays as it is; other text
\* is UTF-8 in base64.
MimeText(text) ==
  IF IsAscii(text)
  THEN [val |-> [headers |-> << Header(Str(<<"C","o","n","t","e","n","t","-","T","y","p","e">>), Str(<<
                                        "t","e","x","t","/","p","l","a","i","n",";"," ","c","h",
                                        "a","r","s","e","t","=","\"","u","s","-","a","s","c",
                                        "i","i","\"">>)),
                                Header(Str(<<"M","I","M","E","-","V","e","r","s","i","o","n">>), Str(<<
                                        "1",".","0">>)),
                                Header(Str(<<"C","o","n","t","e","n","t","-","T","r","a","n",
                                        "s","f","e","r","-","E","n","c","o","d","i","n","g">>), Str(<<
                                        "7","b","i","t">>)) >>,
                 payload |-> text]]
  ELSE MimeBase64(Utf8Encode(text))

\* the header lines, an empty line and the payload, or the exception of the
\* first header line that has one
JoinFolded(lines, payload) ==
  LET bad == { k \in 1..Len(lines) : "exc" \in DOMAIN lines[k] }
  IN IF bad # {} THEN lines[MinOf(bad)]
     ELSE [val |-> Flat([k \in 1..Len(lines) |-> lines[k].val]) \o <<10>>
                   \o NormalizeNewlines(payload)]

\* message.as_bytes(): the headers are folded in the order they were set
AsBytes(msg) ==
  JoinFolded([k \in 1..Len(msg.headers) |->
                FoldBinary(msg.headers[k].name, msg.headers[k].value)],
             msg.payload)

\* message[name] = value for each of the headers, then message.as_bytes()
AsBytesWith(m, headers) ==
  IF "exc" \in DOMAIN m THEN m ELSE AsBytes([m.val EXCEPT !.headers = @ \o headers])

\* base64.urlsafe_b64encode(b).decode('utf-8')
EncodeRaw(b) == IF "exc" \in DOMAIN b THEN b ELSE [val |-> UrlsafeB64Encode(b.val)]

\* base64.urlsafe_b64encode(message.as_bytes()).decode('utf-8') for the
\* message MIMEText(text) with the headers added to it
RawMessage(text, headers) == EncodeRaw(AsBytesWith(MimeText(text), headers))

----------------------------------------------------------------------------
(* Helpers shared by the tools *)

\* dict.get(key, default)
DictGet(d, key, default) == IF key \in DOMAIN d THEN d[key] ELSE default

\* {}
EmptyDict == <<>>

IsExc(r) == "exc" \in DOMAIN r

K_subject == Str(<<"s","u","b","j","e","c","t">>)
K_from == Str(<<"f","r","o","m">>)
K_date == Str(<<"d","a","t","e">>)
K_message_id == Str(<<"m","e","s","s","a","g","e","-","i","d">>)

NoSubject == Str(<<"N","o"," ","S","u","b","j","e","c","t">>)
Unknown == Str(<<"U","n","k","n","o","w","n">>)

\* a variant of HeaderLookupFrom that compares names as they are written
RECURSIVE HeaderLookupFrom_CaseSensitive(_, _, _, _)
HeaderLookupFrom_CaseSensitive(headers, i, key, default) ==
  IF i > Len(headers) THEN default
  ELSE IF headers[i].name = key THEN headers[i].value
  ELSE HeaderLookupFrom_CaseSensitive(headers, i + 1, key, default)

\* the generator of a lookup, from entry i on: the value of the first entry
\* whose lower-cased name is key
RECURSIVE HeaderLookupFrom(_, _, _, _)
HeaderLookupFrom(headers, i, key, default) ==
  IF i > Len(headers) THEN default
  ELSE IF Lower(headers[i].name) = key THEN headers[i].value
  ELSE HeaderLookupFrom(headers, i + 1, key, default)

\* next((header['value'] for header in headers if header['name'].lower() == key), default)
HeaderLookup(headers, key, default) == HeaderLookupFrom(headers, 1, key, default)

\* a variant of ScanParts that takes the first part with data, whatever its type
RECURSIVE ScanParts_AnyType(_, _)
ScanParts_AnyType(parts, i) ==
  IF i > Len(parts) THEN [val |-> <<>>]
  ELSE LET data == DictGet(DictGet(parts[i], "body", EmptyDict), "data", <<>>) IN
       IF data # <<>> THEN DecodeBody(data) ELSE ScanParts_AnyType(parts, i + 1)

\* lines 37-43 (and 90-96): the loop over payload['parts']
RECURSIVE ScanParts(_, _)
ScanParts(parts, i) ==
  IF i > Len(parts) THEN [val |-> <<>>]
  ELSE IF parts[i].mimeType = "text/plain"
  THEN LET data == DictGet(DictGet(parts[i], "body", EmptyDict), "data", <<>>) IN
       IF data # <<>> THEN DecodeBody(data) ELSE [val |-> <<>>]
  ELSE ScanParts(parts, i + 1)

\* lines 35-46 (and 88-99): the body of a full-format payload, or the exception
\* that decoding it raises
ExtractBody(payload) ==
  IF "parts" \in DOMAIN payload
  THEN ScanParts(payload.parts, 1)
  ELSE IF "body" \in DOMAIN payload /\ "data" \in DOMAIN payload.body
  THEN DecodeBody(payload.body.data)
  ELSE [val |-> <<>>]

\* a variant of ReplySubject that prefixes every subject
ReplySubject_Always(subject) == Str(<<"R","e",":"," ">>) \o subject

\* lines 134-135: the subject of a reply
ReplySubject(subject) ==
  IF ~StartsWith(subject, Str(<<"R","e",":">>))
  THEN Str(<<"R","e",":"," ">>) \o subject
  ELSE subject

\* ", ".join(items)
JoinCommaSpace(items) ==
  Flat([k \in 1..Len(items) |-> IF k = 1 THEN items[1] ELSE Str(<<","," ">>) \o items[k]])

\* the requests sent to the store
ListRequest(maxResults, q) == [api |-> "list", userId |-> "me", maxResults |-> maxResults, q |-> q]
ListRequestNoQuery(maxResults) == [api |-> "list", userId |-> "me", maxResults |-> maxResults]
GetRequest(id, format) == [api |-> "get", userId |-> "me", id |-> id, format |-> format]
SendRequest(body) == [api |-> "send", userId |-> "me", body |-> body]

\* the result of an invocation that has not returned
NoResult == [none |-> TRUE]

\* What an invocation has done when it returns: the value returned, the store
\* requests issued and the header values looked up.
Outcome(ret, reqs, looked) == [done |-> TRUE, ret |-> ret, calls |-> reqs, lookups |-> looked]

\* What it has done when it blocks in execute(): the last request of reqs is
\* the one the store has not answered yet.
Waiting(reqs, looked) == [done |-> FALSE, ret |-> NoResult, calls |-> reqs, lookups |-> looked]

\* a variant of ExceptDict that lets the exception out
ExceptDict_Reraise(e) == [raised |-> e]

\* the except clause of the five tools that return a dict (lines 56-57, 109-110,
\* 170-171, 264-265)
ExceptDict(e) == [status |-> "error", message |-> e]

\* the except clause of list_emails (lines 223-224)
ExceptList(e) == [list |-> <<[status |-> "error", message |-> e]>>]

\* the except clause of send_email (lines 330-334)
ExceptSend(e) == [status |-> "error", message |-> Str(<<"F","a","i","l","e","d"," ","t","o"," ",
                                        "s","e","n","d"," ","e","m","a","i","l",":"," ">>) \o e]

----------------------------------------------------------------------------
(* The tools.  Each is a function of its arguments and of the answers the   *)
(* store has given to its requests so far, in the order of the requests: it *)
(* runs until it returns or until it issues a request that has no answer    *)
(* yet.                                                                     *)

(* fetch_top_email, lines 8-57 *)

\* lines 48-55 (and 101-108): the dict returned for a fetched message, or the
\* exception that decoding its body raised; looked holds the header values
\* looked up on the way
FetchDict(msg_id, subject, sender, date, body) ==
  IF IsExc(body)
  THEN [exc |-> body.exc, lookups |-> <<[subject |-> subject, from |-> sender, date |-> date]>>]
  ELSE [val |-> [id |-> msg_id, subject |-> subject, from |-> sender, date |-> date,
                 body |-> body.val, status |-> "success"],
        lookups |-> <<[subject |-> subject, from |-> sender, date |-> date]>>]

\* lines 29-55 (and 82-108): the record of a fetched message
FetchRecord(msg_id, message) ==
  FetchDict(msg_id,
            HeaderLookup(message.payload.headers, K_subject, NoSubject),
            HeaderLookup(message.payload.headers, K_from, Unknown),
            HeaderLookup(message.payload.headers, K_date, Unknown),
            ExtractBody(message.payload))

\* the return of a fetch after its two requests reqs: the record, or the
\* error dict of the except clause
FetchReturn(rec, reqs) ==
  IF IsExc(rec) THEN Outcome(ExceptDict(rec.exc), reqs, rec.lookups)
  ELSE Outcome(rec.val, reqs, rec.lookups)

\* lines 25-55 (and 78-108): the get of the first listed message and what
\* follows it; answers holds the answer to the get once the store has given it
FetchFirst(messages, listReq, answers) ==
  LET msg_id == messages[1].id
      reqs == <<listReq, GetRequest(msg_id, "full")>>
  IN
  IF Len(answers) < 1 THEN Waiting(reqs, <<>>)
  ELSE IF IsExc(answers[1]) THEN Outcome(ExceptDict(answers[1].exc), reqs, <<>>)
  ELSE FetchReturn(FetchRecord(msg_id, answers[1].val), reqs)

fetch_top_email(answers) ==
  LET listReq == ListRequestNoQuery(1) IN
  IF Len(answers) < 1 THEN Waiting(<<listReq>>, <<>>)
  ELSE IF IsExc(answers[1]) THEN Outcome(ExceptDict(answers[1].exc), <<listReq>>, <<>>)
  ELSE
  LET messages == DictGet(answers[1].val, "messages", <<>>) IN
  IF messages = <<>>
  THEN Outcome([status |-> "error", message |-> Str(<<"N","o"," ","e","m","a","i","l","s"," ",
                                        "f","o","u","n","d">>)], <<listReq>>, <<>>)
  ELSE FetchFirst(messages, listReq, Tail(answers))

(* fetch_specific_email, lines 60-110 *)

\* a variant of NotFoundMessage that leaves the query out
NotFoundMessage_NoQuery(query) == Str(<<"N","o"," ","e","m","a","i","l","s"," ","f","o","u","n",
                                    "d">>)

\* lines 76 and 244: the message of a search that matched nothing
NotFoundMessage(query) == Str(<<"N","o"," ","e","m","a","i","l","s"," ","f","o","u","n","d"," ",
                            "m","a","t","c","h","i","n","g"," ","q","u","e","r","y",":"," ">>) \o query

fetch_specific_email(query, answers) ==
  LET listReq == ListRequest(1, query) IN
  IF Len(answers) < 1 THEN Waiting(<<listReq>>, <<>>)
  ELSE IF IsExc(answers[1]) THEN Outcome(ExceptDict(answers[1].exc), <<listReq>>, <<>>)
  ELSE
  LET messages == DictGet(answers[1].val, "messages", <<>>) IN
  IF messages = <<>>
  THEN Outcome([status |-> "error", message |-> NotFoundMessage(query)], <<listReq>>, <<>>)
  ELSE FetchFirst(messages, listReq, Tail(answers))

----------------------------------------------------------------------------
(* reply_to_email, lines 113-171 *)

\* a variant of RecipientMissing that only refuses an empty address
RecipientMissing_OnlyEmpty(to_address) == to_address = <<>>

\* line 138: the test that stops a reply without a recipient
RecipientMissing(to_address) == ~Truthy(to_address)

\* lines 149-154: the headers set on the message of a reply, in order
ReplyHeaders(to_address, subject, references) ==
  << Header(Str(<<"t","o">>), to_address), Header(Str(<<"s","u","b","j","e","c","t">>), subject) >>
  \o IF Truthy(references)
     THEN << Header(Str(<<"R","e","f","e","r","e","n","c","e","s">>), references), Header(Str(<<
                                        "I","n","-","R","e","p","l","y","-","T","o">>), references) >>
     ELSE << >>

\* a variant of ReplySendBody that does not pin the thread
ReplySendBody_NoThread(raw_message, thread_id) == [raw |-> raw_message]

\* line 162: the body of the send request of a reply
ReplySendBody(raw_message, thread_id) == [raw |-> raw_message, threadId |-> thread_id]

\* a variant of SendCall that sends once more after a failed send
SendCall_Retry(okMessage, body, sendAnswers, reqsBefore) ==
  LET reqs == Append(reqsBefore, SendRequest(body)) IN
  IF sendAnswers = <<>> THEN [done |-> FALSE, out |-> [val |-> NoResult], calls |-> reqs]
  ELSE IF IsExc(sendAnswers[1])
  THEN IF Len(sendAnswers) < 2
       THEN [done |-> FALSE, out |-> [val |-> NoResult],
             calls |-> Append(reqs, SendRequest(body))]
       ELSE [done |-> TRUE, out |-> sendAnswers[1], calls |-> Append(reqs, SendRequest(body))]
  ELSE IF "id" \notin DOMAIN sendAnswers[1].val
  THEN [done |-> TRUE, out |-> [exc |-> Str(<<"'","i","d","'">>)], calls |-> reqs]
  ELSE [done |-> TRUE,
        out |-> [val |-> [status |-> "success", message |-> okMessage,
                          message_id |-> sendAnswers[1].val.id]],
        calls |-> reqs]

\* lines 160-169 (and 320-329): the one send call and the dict returned after
\* it, or the exception raised (by the store, or by sent_message['id']);
\* sendAnswers holds the store's answer once it has given one
SendCall(okMessage, body, sendAnswers, reqsBefore) ==
  LET reqs == Append(reqsBefore, SendRequest(body)) IN
  IF sendAnswers = <<>> THEN [done |-> FALSE, out |-> [val |-> NoResult], calls |-> reqs]
  ELSE IF IsExc(sendAnswers[1]) THEN [done |-> TRUE, out |-> sendAnswers[1], calls |-> reqs]
  ELSE IF "id" \notin DOMAIN sendAnswers[1].val
  THEN [done |-> TRUE, out |-> [exc |-> Str(<<"'","i","d","'">>)], calls |-> reqs]
  ELSE [done |-> TRUE,
        out |-> [val |-> [status |-> "success", message |-> okMessage,
                          message_id |-> sendAnswers[1].val.id]],
        calls |-> reqs]

\* lines 165-171: the return of a reply once its send call is at sent
ReplyReturn(sent, looked) ==
  IF ~sent.done THEN Waiting(sent.calls, looked)
  ELSE IF IsExc(sent.out) THEN Outcome(ExceptDict(sent.out.exc), sent.calls, looked)
  ELSE Outcome(sent.out.val, sent.calls, looked)

\* lines 157-171: the send of the raw message, or the error dict for the
\* exception raised on the way to it
ReplyDeliver(raw_message, thread_id, sendAnswers, reqs, looked) ==
  IF IsExc(raw_message) THEN Outcome(ExceptDict(raw_message.exc), reqs, looked)
  ELSE ReplyReturn(SendCall(Str(<<"R","e","p","l","y"," ","s","e","n","t"," ","s","u","c","c",
                              "e","s","s","f","u","l","l","y">>),
                            ReplySendBody(raw_message.val, thread_id), sendAnswers, reqs),
                   looked)

\* lines 134-171: the reply to a message with these header values
ReplyCompose(reply_text, thread_id, subject, to_address, references, sendAnswers, reqs) ==
  IF RecipientMissing(to_address)
  THEN Outcome([status |-> "error", message |-> Str(<<"C","o","u","l","d"," ","n","o","t"," ",
                                        "d","e","t","e","r","m","i","n","e"," ","r","e","c","i",
                                        "p","i","e","n","t"," ","a","d","d","r","e","s","s">>)],
               reqs, <<[subject |-> subject, from |-> to_address]>>)
  ELSE ReplyDeliver(RawMessage(reply_text,
                               ReplyHeaders(to_address, ReplySubject(subject), references)),
                    thread_id, sendAnswers, reqs,
                    <<("subject" :> subject) @@ ("from" :> to_address)
                      @@ ("message-id" :> references)>>)

reply_to_email(email_id, reply_text, answers) ==
  LET reqs == <<GetRequest(email_id, "metadata")>> IN
  IF Len(answers) < 1 THEN Waiting(reqs, <<>>)
  ELSE IF IsExc(answers[1]) THEN Outcome(ExceptDict(answers[1].exc), reqs, <<>>)
  ELSE ReplyCompose(reply_text, answers[1].val.threadId,
                    HeaderLookup(answers[1].val.payload.headers, K_subject, NoSubject),
                    HeaderLookup(answers[1].val.payload.headers, K_from, None),
                    HeaderLookup(answers[1].val.payload.headers, K_message_id, None),
                    Tail(answers), reqs)

----------------------------------------------------------------------------
(* list_emails, lines 174-224 *)

\* lines 204-220: the record of one listed message
ListRecord(id, msg) ==
  LET headers == msg.payload.headers IN
  [id |-> id,
   thread_id |-> msg.threadId,
   subject |-> HeaderLookup(headers, K_subject, NoSubject),
   from |-> HeaderLookup(headers, K_from, Unknown),
   date |-> HeaderLookup(headers, K_date, Unknown),
   labels |-> DictGet(msg, "labelIds", <<>>),
   snippet |-> DictGet(msg, "snippet", "")]

\* a variant of ListAppend that puts the record in front
ListAppend_Front(email_list, record) == <<record>> \o email_list

\* line 212: email_list.append(record)
ListAppend(email_list, record) == Append(email_list, record)

\* the header values the records of email_list were made of
ListLookups(email_list) ==
  [k \in 1..Len(email_list) |->
     [subject |-> email_list[k].subject, from |-> email_list[k].from,
      date |-> email_list[k].date]]

\* lines 200-220: the loop over the listed messages; getAnswers[i] is the
\* store's answer to the get of messages[i].  When a get raises, the lookups of
\* lines 205-207 have run for the messages before it.
RECURSIVE ListLoop(_, _, _, _, _)
ListLoop(messages, i, getAnswers, email_list, reqs) ==
  IF i > Len(messages) THEN Outcome([list |-> email_list], reqs, ListLookups(email_list))
  ELSE
  LET reqs2 == Append(reqs, GetRequest(messages[i].id, "metadata")) IN
  IF Len(getAnswers) < i THEN Waiting(reqs2, ListLookups(email_list))
  ELSE IF IsExc(getAnswers[i])
  THEN Outcome(ExceptList(getAnswers[i].exc), reqs2, ListLookups(email_list))
  ELSE ListLoop(messages, i + 1, getAnswers,
                ListAppend(email_list, ListRecord(messages[i].id, getAnswers[i].val)), reqs2)

list_emails(max_results, query, answers) ==
  LET listReq == ListRequest(max_results, query) IN
  IF Len(answers) < 1 THEN Waiting(<<listReq>>, <<>>)
  ELSE IF IsExc(answers[1]) THEN Outcome(ExceptList(answers[1].exc), <<listReq>>, <<>>)
  ELSE
  LET messages == DictGet(answers[1].val, "messages", <<>>) IN
  IF messages = <<>> THEN Outcome([list |-> <<>>], <<listReq>>, <<>>)
  ELSE ListLoop(messages, 1, SubSeq(answers, 2, Len(answers)), <<>>, <<listReq>>)

----------------------------------------------------------------------------
(* get_email_id, lines 227-265 *)

\* lines 250-263: the dict returned for the message found
IdDict(msg_id, message, sender, date, reqs) ==
  Outcome([status |-> "success", id |-> msg_id,
           thread_id |-> DictGet(message, "threadId", ""),
           from |-> sender, date |-> date],
          reqs, <<[from |-> sender, date |-> date]>>)

\* lines 246-263: the get of the first listed message and what follows it
IdOfFirst(messages, listReq, answers) ==
  LET msg_id == messages[1].id
      reqs == <<listReq, GetRequest(msg_id, "metadata")>>
  IN
  IF Len(answers) < 1 THEN Waiting(reqs, <<>>)
  ELSE IF IsExc(answers[1]) THEN Outcome(ExceptDict(answers[1].exc), reqs, <<>>)
  ELSE IdDict(msg_id, answers[1].val,
              HeaderLookup(answers[1].val.payload.headers, K_from, Unknown),
              HeaderLookup(answers[1].val.payload.headers, K_date, Unknown), reqs)

get_email_id(query, answers) ==
  LET listReq == ListRequest(1, query) IN
  IF Len(answers) < 1 THEN Waiting(<<listReq>>, <<>>)
  ELSE IF IsExc(answers[1]) THEN Outcome(ExceptDict(answers[1].exc), <<listReq>>, <<>>)
  ELSE
  LET messages == DictGet(answers[1].val, "messages", <<>>) IN
  IF messages = <<>>
  THEN Outcome([status |-> "error", message |-> NotFoundMessage(query)], <<listReq>>, <<>>)
  ELSE IdOfFirst(messages, listReq, Tail(answers))

----------------------------------------------------------------------------
(* send_email, lines 268-334 *)

\* cc and bcc are None, a str (<<"str", s>>) or a list of str (<<"list", l>>)
PyStr(s) == <<"str", s>>
PyList(l) == <<"list", l>>

\* lines 300 and 306: truthiness of cc and bcc
PyTruthy(v) == v # None /\ v[2] # <<>>

\* lines 301-302 (and 307-308): a list of addresses becomes one header value
AddressHeader(v) == IF v[1] = "list" THEN JoinCommaSpace(v[2]) ELSE v[2]

\* lines 296-309: the headers set on the message of a new mail, in order
SendHeaders(to, subject, cc, bcc) ==
  << Header(Str(<<"t","o">>), to), Header(Str(<<"s","u","b","j","e","c","t">>), subject) >>
  \o (IF PyTruthy(cc) THEN << Header(Str(<<"c","c">>), AddressHeader(cc)) >> ELSE << >>)
  \o (IF PyTruthy(bcc) THEN << Header(Str(<<"b","c","c">>), AddressHeader(bcc)) >> ELSE << >>)

\* lines 325-334: the return of send_email once its send call is at sent
SendReturn(sent) ==
  IF ~sent.done THEN Waiting(sent.calls, <<>>)
  ELSE IF IsExc(sent.out) THEN Outcome(ExceptSend(sent.out.exc), sent.calls, <<>>)
  ELSE Outcome(sent.out.val, sent.calls, <<>>)

\* lines 312-334: the send of the encoded message, or the error dict for the
\* exception raised on the way to it
SendDeliver(encoded_message, answers) ==
  IF IsExc(encoded_message) THEN Outcome(ExceptSend(encoded_message.exc), <<>>, <<>>)
  ELSE SendReturn(SendCall(Str(<<"E","m","a","i","l"," ","s","e","n","t"," ","s","u","c","c",
                             "e","s","s","f","u","l","l","y">>), [raw |-> encoded_message.val],
                           answers, <<>>))

send_email(to, subject, body, cc, bcc, answers) ==
  SendDeliver(RawMessage(body, SendHeaders(to, subject, cc, bcc)), answers)

----------------------------------------------------------------------------
(* The inputs: the arguments the agent passes and the answers of the store *)

\* max_results of list_emails when the caller gives none (line 174)
DefaultMaxResults == 5

\* The header entries a fetched message is built from: the looked-up names in
\* several letter cases and under a name that only looks like one, subjects
\* with and without the reply prefix, a subject too long for one line, empty
\* values, a sender whose name is not ASCII and a sender value that carries a
\* second header line.
HeaderEntries ==
  { Header(Str(<<"S","u","b","j","e","c","t">>), Str(<<"H","i">>)),
    Header(Str(<<"S","U","B","J","E","C","T">>), Str(<<"R","e",":"," ","H","i">>)),
    Header(Str(<<"s","u","b","j","e","c","t">>), Str(<<"r","e",":"," ","H","i">>)),
    Header(Str(<<"S","u","b","j","e","c","t">>),
           Str(<<"M","i","n","u","t","e","s"," ","o","f"," ","t","h","e"," ","p","l","a","n",
             "n","i","n","g"," ","m","e","e","t","i","n","g",","," ","w","i","t","h"," ","t",
             "h","e"," ","a","c","t","i","o","n"," ","i","t","e","m","s"," ","f","o","r"," ",
             "n","e","x","t"," ","w","e","e","k",";"," ","p","l","e","a","s","e"," ","r","e",
             "v","i","e","w">>)),
    Header(Str(<<"F","r","o","m">>), Str(<<"a","@","x">>)),
    Header(Str(<<"F","R","O","M">>), <<74, 111, 115, 233>> \o Str(<<" ","<","j","@","y",">">>)),
    Header(Str(<<"f","r","o","m">>), <<>>),
    Header(Str(<<"F","r","o","m">>), Str(<<"a","@","x","\n","B","c","c",":"," ","e","@","z">>)),
    Header(Str(<<"M","e","s","s","a","g","e","-","I","D">>), Str(<<"<","1","@","x",">">>)),
    Header(Str(<<"m","e","s","s","a","g","e","-","i","d">>), <<>>),
    Header(Str(<<"M","e","s","s","a","g","e","-">>) \o <<304>> \o Str(<<"D">>), Str(<<"<","2",
                                        "@","x",">">>)),
    Header(Str(<<"D","A","T","E">>), Str(<<"M","o","n">>)) }

\* every header list of at most MaxHeaders entries
HeaderLists == UNION { [1..n -> HeaderEntries] : n \in 0..MaxHeaders }

\* two header lists paired with every payload: none, and the three read headers
NarrowHeaderLists ==
  { <<>>,
    <<Header(Str(<<"S","u","b","j","e","c","t">>), Str(<<"H","i">>)), Header(Str(<<"F","r","o",
                                        "m">>), Str(<<"a","@","x">>)), Header(Str(<<"D","a","t",
                                        "e">>), Str(<<"M","o","n">>))>> }

\* base64url data: "", "hi", "yo", "hi" without its padding (binascii.Error),
\* the byte 0xff (UnicodeDecodeError), and "hi" behind a character that is not
\* ASCII (ValueError)
DataSamples ==
  { <<>>, Str(<<"a","G","k","=">>), Str(<<"e","W","8","=">>), Str(<<"a","G","k">>), Str(<<"_",
                                        "w","=","=">>), <<233>> \o Str(<<"a","G","k","=">>) }

\* the parts of a multi-part payload: plain-text parts without a body and with
\* each data sample, and HTML parts without a body and with data
Parts ==
  { [mimeType |-> "text/plain"], [mimeType |-> "text/html"],
    [mimeType |-> "text/html", body |-> [data |-> Str(<<"e","W","8","=">>)]] }
  \cup { [mimeType |-> "text/plain", body |-> [data |-> d]] : d \in DataSamples }

PartLists == UNION { [1..n -> Parts] : n \in 0..MaxParts }

\* the part list paired with every header list
NarrowPartLists ==
  { <<[mimeType |-> "text/html", body |-> [data |-> Str(<<"e","W","8","=">>)]],
      [mimeType |-> "text/plain", body |-> [data |-> Str(<<"a","G","k","=">>)]]>> }

\* the full-format payloads with a header list of hs: single-part without a body,
\* without body data or with data of ds, or multi-part with a part list of ps
FullPayloads(hs, ds, ps) ==
  { [headers |-> h] : h \in hs }
  \cup { [headers |-> h, body |-> [size |-> 0]] : h \in hs }
  \cup { [headers |-> h, body |-> [size |-> 0, data |-> d]] : h \in hs, d \in ds }
  \cup { [headers |-> h, body |-> [size |-> 0], parts |-> p] : h \in hs, p \in ps }

ThreadIds == { "t1", "t2" }
MsgIds == { "m1", "m2" }
FaultMessages == { Str(<<"H","t","t","p","E","r","r","o","r"," ","5","0","3">>) }

Faults == { [exc |-> f] : f \in FaultMessages }

\* answers to get(format='full'): every header list with two payloads (one
\* single-part, one multi-part), and every payload with two header lists (fields
\* no tool reads are left out)
FullGetResponses ==
  Faults
  \cup { [val |-> [threadId |-> "t1", payload |-> p]] :
           p \in { [headers |-> h, body |-> [size |-> 0, data |-> Str(<<"a","G","k","=">>)]] :
                     h \in HeaderLists }
                 \cup { [headers |-> h, body |-> [size |-> 0], parts |-> ps] :
                          h \in HeaderLists, ps \in NarrowPartLists }
                 \cup FullPayloads(NarrowHeaderLists, DataSamples, PartLists) }

\* answers to get(format='metadata') with a thread id of threads
MetaGetResponses(threads) ==
  Faults
  \cup { [val |-> [threadId |-> t, payload |-> [headers |-> h]]] :
           t \in threads, h \in HeaderLists }

\* answers to get(format='metadata') for list_emails: labelIds and snippet are
\* optional
ListGetResponses ==
  Faults
  \cup { [val |-> [threadId |-> t, payload |-> [headers |-> h]]] :
           t \in {"t1"}, h \in NarrowHeaderLists }
  \cup { [val |-> [threadId |-> t, labelIds |-> <<"INBOX", "UNREAD">>,
                   snippet |-> "hi there", payload |-> [headers |-> h]]] :
           t \in {"t2"}, h \in NarrowHeaderLists }

\* answers to list(maxResults=n): a fault, no messages key, or at most n (and at
\* most MaxList) ids
ListResponses(n) ==
  Faults
  \cup { [val |-> [resultSizeEstimate |-> 0]] }
  \cup { [val |-> [messages |-> ids, resultSizeEstimate |-> Len(ids)]] :
           ids \in UNION { [1..k -> { [id |-> i] : i \in MsgIds }] : k \in 0..Min(n, MaxList) } }

\* answers to send: a fault, the sent message, or a response without an id
SendResponses ==
  Faults \cup { [val |-> [id |-> "s1", labelIds |-> <<"SENT">>]],
                [val |-> [labelIds |-> <<"SENT">>]] }

Queries == { Str(<<"f","r","o","m",":","a","m","a","z","o","n",".","c","o","m">>), Str(<<"s",
                                        "u","b","j","e","c","t",":","I","n","v","o","i","c","e">>) }
ListQueries == { <<>>, Str(<<"l","a","b","e","l",":","U","N","R","E","A","D">>) }

\* reply texts: ASCII with a CR LF, and text that is not ASCII
ReplyTexts == { Str(<<"T","h","a","n","k","s","!","\r","\n","B","y","e">>), Str(<<"D","z","i">>) \o <<281>> \o Str(<<
                                        "k","i">>) }

Recipients == { Str(<<"a","@","x">>) }

\* subjects of a new mail: one line, and one that carries a second header line
Subjects == { Str(<<"H","i">>), Str(<<"H","i","\n","B","c","c",":"," ","e","@","z">>) }

Bodies == { Str(<<"H","e","l","l","o"," ","t","h","e","r","e">>) }
CcValues == { None, PyStr(<<>>), PyStr(Str(<<"c","@","z">>)), PyList(<<Str(<<"a","@","x">>), Str(<<
                                        "b","@","y">>)>>) }
BccValues == { None, PyList(<<Str(<<"c","@","z">>)>>) }

\* The threads of the agent's tool node, which runs the tool calls of one model
\* message at once, each in a thread of its own: a call that is alone in its
\* message runs in "t0", two calls of one message run side by side in "t1" and
\* "t2".  A call that runs alone gets every input and answer above; calls
\* that run side by side get a sample: one argument list for each tool and one
\* answer for each request.
Workers == { "t0", "t1", "t2" }

Sampled(t) == t # "t0"

\* the values a call in thread t draws an argument or an answer from: one of them
\* when it runs beside another call, all of them when it runs alone
Pick(t, all, one) == IF Sampled(t) THEN {one} ELSE all

SampleMessage ==
  [threadId |-> "t1",
   payload |-> [headers |-> <<Header(Str(<<"S","u","b","j","e","c","t">>), Str(<<"H","i">>)), Header(Str(<<
                                        "F","r","o","m">>), Str(<<"a","@","x">>))>>,
                body |-> [size |-> 0, data |-> Str(<<"a","G","k","=">>)]]]

\* the answers the store can give to the request req of tool name in thread t
ListAnswers(t, req) ==
  Pick(t, ListResponses(req.maxResults),
       [val |-> [messages |-> <<[id |-> "m1"]>>, resultSizeEstimate |-> 1]])

GetAnswers(t, name, req) ==
  IF Sampled(t) THEN { [val |-> SampleMessage] }
  ELSE IF req.format = "full" THEN FullGetResponses
  ELSE IF name = "list_emails" THEN ListGetResponses
  ELSE IF name = "get_email_id" THEN MetaGetResponses({"t1"})
  ELSE MetaGetResponses(ThreadIds)

SendAnswers(t) == Pick(t, SendResponses, [val |-> [id |-> "s1", labelIds |-> <<"SENT">>]])
----------------------------------------------------------------------------
(* The state machine.  chat.py hands the six tools to a ReAct agent, whose  *)
(* tool node runs the tool calls of one model message in parallel threads.  *)
(* The tools share the service object and take no lock, so a thread can be  *)
(* anywhere in its tool while another issues a request: a step of a thread  *)
(* is the code of its tool from one execute() to the next.  A request is    *)
(* issued in the step that reaches it and answered in the next step of the  *)
(* thread.                                                                  *)

ReadTools == { "fetch_top_email", "fetch_specific_email", "list_emails", "get_email_id" }
WriteTools == { "reply_to_email", "send_email" }

SendCalls(reqs) == { i \in 1..Len(reqs) : reqs[i].api = "send" }
GetCalls(reqs) == { i \in 1..Len(reqs) : reqs[i].api = "get" }
ListCalls(reqs) == { i \in 1..Len(reqs) : reqs[i].api = "list" }

Init ==
  /\ pc = [t \in Workers |-> "idle"]
  /\ op = [t \in Workers |-> "none"]
  /\ args = [t \in Workers |-> <<>>]
  /\ responses = [t \in Workers |-> <<>>]
  /\ calls = [t \in Workers |-> <<>>]
  /\ lookups = [t \in Workers |-> <<>>]
  /\ result = [t \in Workers |-> NoResult]
  /\ sendTotal = 0
  /\ writerCalls = 0

\* the tool name called with a, after the store has given answers
Run(name, a, answers) ==
  CASE name = "fetch_top_email" -> fetch_top_email(answers)
    [] name = "fetch_specific_email" -> fetch_specific_email(a.query, answers)
    [] name = "reply_to_email" -> reply_to_email(a.email_id, a.reply_text, answers)
    [] name = "list_emails" -> list_emails(a.max_results, a.query, answers)
    [] name = "get_email_id" -> get_email_id(a.query, answers)
    [] name = "send_email" -> send_email(a.to, a.subject, a.body, a.cc, a.bcc, answers)

\* thread t runs the tool name, called with a, from the point the answers
\* take it to, up to its next request or its return
Advance(t, name, a, answers) ==
  \E o \in {Run(name, a, answers)} :
  /\ pc' = [pc EXCEPT ![t] = IF o.done THEN "returned" ELSE "waiting"]
  /\ op' = [op EXCEPT ![t] = name]
  /\ args' = [args EXCEPT ![t] = a]
  /\ responses' = [responses EXCEPT ![t] = answers]
  /\ calls' = [calls EXCEPT ![t] = o.calls]
  /\ lookups' = [lookups EXCEPT ![t] = o.lookups]
  /\ result' = [result EXCEPT ![t] = o.ret]
  /\ sendTotal' = sendTotal + Cardinality(SendCalls(o.calls))
                            - Cardinality(SendCalls(calls[t]))

\* thread t is free for a call: the thread of a lone call when no pair of calls
\* is running, a thread of a pair when no lone call is
Free(t) ==
  /\ pc[t] = "idle"
  /\ IF t = "t0" THEN pc["t1"] = "idle" /\ pc["t2"] = "idle" ELSE pc["t0"] = "idle"

\* the agent calls a tool in thread t
FetchTopEmail(t) ==
  /\ Free(t)
  /\ Advance(t, "fetch_top_email", <<>>, <<>>)
  /\ UNCHANGED writerCalls

FetchSpecificEmail(t) ==
  /\ Free(t)
  /\ \E query \in Pick(t, Queries, Str(<<"s","u","b","j","e","c","t",":","I","n","v","o","i",
                                     "c","e">>)) :
       Advance(t, "fetch_specific_email", [query |-> query], <<>>)
  /\ UNCHANGED writerCalls

ReplyToEmail(t) ==
  /\ Free(t)
  /\ writerCalls < MaxWrites
  /\ \E email_id \in Pick(t, MsgIds, "m1"),
        reply_text \in Pick(t, ReplyTexts, Str(<<"T","h","a","n","k","s","!","\r","\n","B","y",
                                        "e">>)) :
       Advance(t, "reply_to_email", [email_id |-> email_id, reply_text |-> reply_text], <<>>)
  /\ writerCalls' = writerCalls + 1

ListEmails(t) ==
  /\ Free(t)
  /\ \E max_results \in Pick(t, {1, DefaultMaxResults}, DefaultMaxResults),
        query \in Pick(t, ListQueries, <<>>) :
       Advance(t, "list_emails", [max_results |-> max_results, query |-> query], <<>>)
  /\ UNCHANGED writerCalls

GetEmailId(t) ==
  /\ Free(t)
  /\ \E query \in Pick(t, Queries, Str(<<"s","u","b","j","e","c","t",":","I","n","v","o","i",
                                     "c","e">>)) :
       Advance(t, "get_email_id", [query |-> query], <<>>)
  /\ UNCHANGED writerCalls

SendEmail(t) ==
  /\ Free(t)
  /\ writerCalls < MaxWrites
  /\ \E to \in Recipients, subject \in Pick(t, Subjects, Str(<<"H","i">>)), body \in Bodies,
        cc \in Pick(t, CcValues, None), bcc \in Pick(t, BccValues, None) :
       Advance(t, "send_email",
               [to |-> to, subject |-> subject, body |-> body, cc |-> cc, bcc |-> bcc], <<>>)
  /\ writerCalls' = writerCalls + 1

\* the request thread t waits for
Pending(t) == calls[t][Len(calls[t])]

\* the store answers the list request of thread t, and the tool runs on
StoreList(t) ==
  /\ pc[t] = "waiting"
  /\ Pending(t).api = "list"
  /\ \E answer \in ListAnswers(t, Pending(t)) :
       Advance(t, op[t], args[t], Append(responses[t], answer))
  /\ UNCHANGED writerCalls

\* the store answers the get request of thread t, and the tool runs on
StoreGet(t) ==
  /\ pc[t] = "waiting"
  /\ Pending(t).api = "get"
  /\ \E answer \in GetAnswers(t, op[t], Pending(t)) :
       Advance(t, op[t], args[t], Append(responses[t], answer))
  /\ UNCHANGED writerCalls

\* the store answers the send request of thread t, and the tool returns
StoreSend(t) ==
  /\ pc[t] = "waiting"
  /\ Pending(t).api = "send"
  /\ \E answer \in SendAnswers(t) :
       Advance(t, op[t], args[t], Append(responses[t], answer))
  /\ UNCHANGED writerCalls

\* the agent takes the value returned in thread t; the tools keep nothing
\* between calls
AgentResume(t) ==
  /\ pc[t] = "returned"
  /\ pc' = [pc EXCEPT ![t] = "idle"]
  /\ op' = [op EXCEPT ![t] = "none"]
  /\ args' = [args EXCEPT ![t] = <<>>]
  /\ responses' = [responses EXCEPT ![t] = <<>>]
  /\ calls' = [calls EXCEPT ![t] = <<>>]
  /\ lookups' = [lookups EXCEPT ![t] = <<>>]
  /\ result' = [result EXCEPT ![t] = NoResult]
  /\ UNCHANGED <<sendTotal, writerCalls>>

Next ==
  \E t \in Workers :
    \/ FetchTopEmail(t)
    \/ FetchSpecificEmail(t)
    \/ ReplyToEmail(t)
    \/ ListEmails(t)
    \/ GetEmailId(t)
    \/ SendEmail(t)
    \/ StoreList(t)
    \/ StoreGet(t)
    \/ StoreSend(t)
    \/ AgentResume(t)

Spec == Init /\ [][Next]_vars

----------------------------------------------------------------------------
(* Vocabulary of the properties.  These definitions restate, without the    *)
(* helpers of the tools, what the specification says a lookup, a body or a  *)
(* header of an outgoing message is.  Each is about the invocation that     *)
(* runs in one thread t.                                                    *)

Returned(t, name) == pc[t] = "returned" /\ op[t] = name

\* the store answered call i of the invocation without a fault
Answered(t, i) == Len(responses[t]) >= i /\ ~IsExc(responses[t][i])

\* the list answer named no message
ListedNothing(t, i) ==
  Answered(t, i) /\ DictGet(responses[t][i].val, "messages", <<>>) = <<>>

\* s with the letters A to Z replaced by a to z
FoldCase(s) == [i \in 1..Len(s) |-> IF s[i] >= 65 /\ s[i] <= 90 THEN s[i] + 32 ELSE s[i]]

\* entry i of the header list h is named key, whatever the letter case
Named(h, i, key) == FoldCase(h[i].name) = key

\* the entries of h named key
Matching(h, key) == { i \in 1..Len(h) : Named(h, i, key) }

HasHeader(h, key) == Matching(h, key) # {}

\* the value of the first entry of h named key
FirstValue(h, key) == h[MinOf(Matching(h, key))].value

\* the value of the first entry, or the sentinel when no entry is named key
ValueOr(h, key, sentinel) == IF HasHeader(h, key) THEN FirstValue(h, key) ELSE sentinel

\* the data body extraction selects from a full-format payload: that of the first
\* text/plain part when there is a part list, else that of the top-level body;
\* <<>> when there is none
PlainParts(parts) == { i \in 1..Len(parts) : parts[i].mimeType = "text/plain" }

DataOf(holder) ==
  IF "body" \in DOMAIN holder /\ "data" \in DOMAIN holder.body THEN holder.body.data ELSE <<>>

SelectedData(payload) ==
  IF "parts" \in DOMAIN payload
  THEN IF PlainParts(payload.parts) = {} THEN <<>>
       ELSE DataOf(payload.parts[MinOf(PlainParts(payload.parts))])
  ELSE DataOf(payload)

Decodable(data) == ~IsExc(DecodeBody(data))

FetchTools == { "fetch_top_email", "fetch_specific_email" }

\* a fetch tool returned after the store answered both its list and its get
Fetched(t) == pc[t] = "returned" /\ op[t] \in FetchTools /\ Answered(t, 1) /\ Answered(t, 2)

\* the headers of the message that get number i of the invocation returned
HeadersOf(t, i) == responses[t][i].val.payload.headers

\* the record a fetch returns for the message it got, with the body given
FetchedRecord(t, body) ==
  [id |-> responses[t][1].val.messages[1].id,
   subject |-> ValueOr(HeadersOf(t, 2), K_subject, NoSubject),
   from |-> ValueOr(HeadersOf(t, 2), K_from, Unknown),
   date |-> ValueOr(HeadersOf(t, 2), K_date, Unknown),
   body |-> body,
   status |-> "success"]

\* reply_to_email got the message it replies to
Replied(t) == op[t] = "reply_to_email" /\ Answered(t, 1)

RepliedHeaders(t) == HeadersOf(t, 1)

\* the send request of the invocation, when it has issued one
Sent(t) == SendCalls(calls[t]) # {}
SendReq(t) == calls[t][MinOf(SendCalls(calls[t]))]

\* a value that is one line and has no surrogate code point
OneLine(v) == (\A i \in 1..Len(v) : ~IsLineBreak(v[i])) /\ ~HasSurrogates(v)

\* s without the blanks and tabs in front of it
DropBlanks(s) ==
  IF \A i \in 1..Len(s) : s[i] \in {32, 9} THEN <<>>
  ELSE SubSeq(s, MinOf({ i \in 1..Len(s) : s[i] \notin {32, 9} }), Len(s))

(* The message a send request carries, read as its receiver reads it: the   *)
(* header block ends at the first empty line, a line that starts with a     *)
(* blank or a tab continues the field before it (RFC 5322), and a value     *)
(* that is not ASCII is written as encoded words (RFC 2047).                *)

\* the bytes of the message of the send request
Wire(t) == UrlsafeB64Decode(SendReq(t).body.raw).val

\* the newline that ends the last line of the header block of b
HeaderEnd(b) == MinOf({ k \in 1..(Len(b) - 1) : b[k] = 10 /\ b[k + 1] = 10 })

\* position i of b starts a field
StartsField(b, i) == (i = 1 \/ b[i - 1] = 10) /\ b[i] \notin {32, 9, 10}

\* the name of the field that starts at position i
FieldNameAt(b, i) == SubSeq(b, i, MinOf({ j \in i..Len(b) : b[j] \in {58, 10} }) - 1)

\* the names of the fields that start at the positions at, in order
FieldNamesAt(b, at) == [k \in 1..Len(at) |-> FieldNameAt(b, at[k])]

\* the names of the fields of b, in order
FieldNames(b) ==
  FieldNamesAt(b, SelectSeq(Indices(HeaderEnd(b)), LAMBDA i : StartsField(b, i)))

\* the positions at which a field called name starts
FieldAt(b, name) ==
  { i \in 1..HeaderEnd(b) :
      /\ StartsField(b, i)
      /\ i + Len(name) + 1 <= Len(b)
      /\ SubSeq(b, i, i + Len(name) + 1) = name \o Str(<<":"," ">>) }

HasField(b, name) == FieldAt(b, name) # {}

\* the unfolded text from position i up to the end of its field
UnfoldFrom(b, i) ==
  SelectSeq(SubSeq(b, i, MinOf({ j \in i..(Len(b) - 1) : b[j] = 10 /\ b[j + 1] \notin {32, 9} }) - 1),
            LAMBDA c : c # 10)

\* the unfolded body of the first field called name
FieldBody(b, name) == UnfoldFrom(b, MinOf(FieldAt(b, name)) + Len(name) + 2)

\* the words of s that start at the positions at: each runs up to the next
\* blank or tab
WordsAt(s, at) ==
  [k \in 1..Len(at) |->
     SubSeq(s, at[k], MinOf({ j \in at[k]..Len(s) : j = Len(s) \/ s[j + 1] \in {32, 9} }))]

\* the words of s
Words(s) ==
  WordsAt(s, SelectSeq(Indices(Len(s)),
                       LAMBDA i : s[i] \notin {32, 9} /\ (i = 1 \/ s[i - 1] \in {32, 9})))

HexValue(c) == IF c <= 57 THEN c - 48 ELSE c - 55

\* the bytes the text p of a Q-encoded word stands for
QDecode(p) ==
  Flat([i \in 1..Len(p) |->
          IF p[i] = 61 THEN <<(16 * HexValue(p[i + 1])) + HexValue(p[i + 2])>>
          ELSE IF (i > 1 /\ p[i - 1] = 61) \/ (i > 2 /\ p[i - 2] = 61) THEN <<>>
          ELSE IF p[i] = 95 THEN <<32>>
          ELSE <<p[i]>>])

\* the bytes the encoded word w, =?utf-8?b?...?= or =?utf-8?q?...?=, stands for
WordBytes(w) ==
  IF w[9] = 98 THEN A2bBase64(SubSeq(w, 11, Len(w) - 2)).val
  ELSE QDecode(SubSeq(w, 11, Len(w) - 2))

\* the text of the encoded words ws
WordsText(ws) == Utf8Decode(Flat([k \in 1..Len(ws) |-> WordBytes(ws[k])])).val

\* what the receiver reads in the field called name of b, for a value v: the
\* body as it is, without the blanks in front, when v is ASCII, and the text
\* of its encoded words when it is not
FieldText(b, name, v) ==
  IF IsAscii(v) THEN DropBlanks(FieldBody(b, name)) ELSE WordsText(Words(FieldBody(b, name)))

\* the field called name of b carries the value v
Carries(b, name, v) ==
  /\ HasField(b, name)
  /\ FieldText(b, name, v) = (IF IsAscii(v) THEN DropBlanks(v) ELSE v)

\* the three fields MIMEText sets
MimeFields == << Str(<<"C","o","n","t","e","n","t","-","T","y","p","e">>), Str(<<"M","I","M",
                                        "E","-","V","e","r","s","i","o","n">>), Str(<<"C","o",
                                        "n","t","e","n","t","-","T","r","a","n","s","f","e","r",
                                        "-","E","n","c","o","d","i","n","g">>) >>

----------------------------------------------------------------------------
(* C1 *)

\* the message replied to has no header named "from" in any letter case
NoFromHeader(t) == Replied(t) /\ ~HasHeader(RepliedHeaders(t), K_from)

\* C1: a reply to a message whose header list has no "from" header, in any
\* letter case, returns the missing-recipient error, and the metadata get is the
\* only request the invocation sends to the store (no send), whatever the other
\* threads do meanwhile.
C1_NoFromNoSend ==
  \A t \in Workers :
    NoFromHeader(t) =>
      /\ pc[t] = "returned"
      /\ result[t] = [status |-> "error",
                      message |-> Str(<<"C","o","u","l","d"," ","n","o","t"," ","d","e","t","e",
                                    "r","m","i","n","e"," ","r","e","c","i","p","i","e","n","t",
                                    " ","a","d","d","r","e","s","s">>)]
      /\ calls[t] = <<GetRequest(args[t].email_id, "metadata")>>

\* a reply to a message that has headers, none of them named "from", was refused
C1_Witness ==
  \E t \in Workers :
    /\ NoFromHeader(t)
    /\ Len(RepliedHeaders(t)) >= 1
    /\ result[t].status = "error"
    /\ ~Sent(t)

----------------------------------------------------------------------------
(* C2 *)

\* a fetch got a message whose selected body data does not decode
FetchedUndecodable(t) ==
  Fetched(t) /\ ~Decodable(SelectedData(responses[t][2].val.payload))

\* C2: when the selected body data is present but does not decode (base64 or
\* UTF-8), FetchNewest and FetchByQuery still return a success record with the
\* id, subject, from and date of the message and with the empty body.
C2_DecodeFailureGivesEmptyBody ==
  \A t \in Workers : FetchedUndecodable(t) => result[t] = FetchedRecord(t, <<>>)

\* what the code does instead: the exception of the decoder reaches the except
\* clause and the whole fetch is an error that carries the text of the exception
C2_CodeBehaviour ==
  \A t \in Workers :
    FetchedUndecodable(t) =>
      result[t] = [status |-> "error",
                   message |-> DecodeBody(SelectedData(responses[t][2].val.payload)).exc]

----------------------------------------------------------------------------
(* C5 *)

\* a fetch got a message whose selected body data decodes
FetchedDecodable(t) ==
  Fetched(t) /\ Decodable(SelectedData(responses[t][2].val.payload))

\* C5: for a payload whose selected data decodes, the body of a fetch is the
\* decoded data of the first text/plain part when the payload has a part list
\* ("" when no part is text/plain, every other part being ignored), else the
\* decoded top-level body data, else ""; the result is a success record with the
\* id, subject, from and date of the message.
C5_BodyExtraction ==
  \A t \in Workers :
    FetchedDecodable(t) =>
      result[t] = FetchedRecord(t, DecodeBody(SelectedData(responses[t][2].val.payload)).val)

\* the body "hi" came from a text/plain part that follows an HTML part with data
C5_Witness ==
  \E t \in Workers :
    /\ FetchedDecodable(t)
    /\ "parts" \in DOMAIN responses[t][2].val.payload
    /\ Len(responses[t][2].val.payload.parts) >= 2
    /\ responses[t][2].val.payload.parts[1].mimeType = "text/html"
    /\ "body" \in DOMAIN responses[t][2].val.payload.parts[1]
    /\ responses[t][2].val.payload.parts[2].mimeType = "text/plain"
    /\ result[t].status = "success"
    /\ result[t].body = Str(<<"h","i">>)

----------------------------------------------------------------------------
(* C7 *)

SearchTools == { "fetch_top_email", "fetch_specific_email", "get_email_id" }

\* a tool that takes the newest match got a list answer that named no message
SearchedNothing(t) == op[t] \in SearchTools /\ ListedNothing(t, 1)

\* C7: when the list call returns zero messages, FetchNewest, FetchByQuery and
\* ResolveIdentifier return an error and issue no get request; the message of
\* FetchByQuery and ResolveIdentifier ends with the query of the caller,
\* unchanged.
C7_NotFound ==
  \A t \in Workers :
    SearchedNothing(t) =>
      /\ pc[t] = "returned"
      /\ result[t].status = "error"
      /\ GetCalls(calls[t]) = {}
      /\ Len(calls[t]) = 1
      /\ op[t] = "fetch_top_email" => result[t].message = Str(<<"N","o"," ","e","m","a","i","l",
                                        "s"," ","f","o","u","n","d">>)
      /\ op[t] # "fetch_top_email" =>
           result[t].message = Str(<<"N","o"," ","e","m","a","i","l","s"," ","f","o","u","n",
                                 "d"," ","m","a","t","c","h","i","n","g"," ","q","u","e","r",
                                 "y",":"," ">>) \o args[t].query

\* a search by query found nothing, answered by a list with an empty messages
\* key
C7_Witness ==
  \E t \in Workers :
    /\ SearchedNothing(t)
    /\ op[t] = "get_email_id"
    /\ args[t].query = Str(<<"s","u","b","j","e","c","t",":","I","n","v","o","i","c","e">>)
    /\ "messages" \in DOMAIN responses[t][1].val
    /\ result[t].message = Str(<<"N","o"," ","e","m","a","i","l","s"," ","f","o","u","n","d",
                             " ","m","a","t","c","h","i","n","g"," ","q","u","e","r","y",":",
                             " ","s","u","b","j","e","c","t",":","I","n","v","o","i","c","e">>)

----------------------------------------------------------------------------
(* C3 *)

DictTools ==
  { "fetch_top_email", "fetch_specific_email", "get_email_id", "reply_to_email",
    "send_email" }

\* the invocation ended by raising instead of returning
Raised(t) == "raised" \in DOMAIN result[t]

\* a store call of the invocation raised
StoreFault(t) == \E i \in 1..Len(responses[t]) : IsExc(responses[t][i])

HasStatus(r) == "status" \in DOMAIN r /\ r.status \in {"success", "error"}

IsError(r) == HasStatus(r) /\ r.status = "error" /\ "message" \in DOMAIN r

\* C3 as stated: every one of the six operations returns a value that carries
\* status success or error, never raises, and returns a store fault as status
\* error with a message.
C3_EveryResultCarriesStatus ==
  \A t \in Workers :
    pc[t] = "returned" =>
      /\ ~Raised(t)
      /\ HasStatus(result[t])
      /\ StoreFault(t) => IsError(result[t])

\* the value list_emails returned: a sequence without a status of its own,
\* which holds one error record with the message of the fault after a store
\* fault, and records without a status otherwise
ListShape(t) ==
  /\ "list" \in DOMAIN result[t]
  /\ ~HasStatus(result[t])
  /\ StoreFault(t) =>
       /\ Len(result[t].list) = 1
       /\ IsError(result[t].list[1])
       /\ result[t].list[1].message = responses[t][Len(responses[t])].exc
  /\ ~StoreFault(t) =>
       \A k \in 1..Len(result[t].list) : "status" \notin DOMAIN result[t].list[k]

\* C3 as amended: no operation raises; the five operations that return a record
\* return one with status success or error, status error with a message after a
\* store fault; list_emails returns a sequence, whose records carry no status
\* when every store call succeeded and which holds one error record, with the
\* message of the fault, after a store fault.
C3_ResultShapes ==
  \A t \in Workers :
    pc[t] = "returned" =>
      /\ ~Raised(t)
      /\ op[t] \in DictTools =>
           /\ HasStatus(result[t])
           /\ StoreFault(t) => IsError(result[t])
      /\ op[t] = "list_emails" => ListShape(t)

\* a get of list_emails raised after an earlier get had succeeded, and the
\* result is the one-record error list
C3_Witness ==
  \E t \in Workers :
    /\ Returned(t, "list_emails")
    /\ Len(responses[t]) = 3
    /\ ~IsExc(responses[t][2])
    /\ IsExc(responses[t][3])
    /\ result[t] = [list |-> <<[status |-> "error", message |-> responses[t][3].exc]>>]

----------------------------------------------------------------------------
(* C4 *)

\* a reply has issued its send request
ReplySent(t) == Replied(t) /\ Sent(t)

\* the header values of the message replied to that go into the reply
RepliedFrom(t) == FirstValue(RepliedHeaders(t), K_from)
RepliedSubject(t) == ValueOr(RepliedHeaders(t), K_subject, NoSubject)
RepliedMessageId(t) == FirstValue(RepliedHeaders(t), K_message_id)

\* the send request is pinned to the thread of the message replied to
Pinned(t) ==
  /\ "threadId" \in DOMAIN SendReq(t).body
  /\ SendReq(t).body.threadId = responses[t][1].val.threadId

\* the message b has both threading fields, and both carry the value v
Linked(b, v) == Carries(b, Str(<<"R","e","f","e","r","e","n","c","e","s">>), v) /\ Carries(b, Str(<<
                                        "I","n","-","R","e","p","l","y","-","T","o">>), v)

\* the message b has neither threading field
Unlinked(b) == ~HasField(b, Str(<<"R","e","f","e","r","e","n","c","e","s">>)) /\ ~HasField(b, Str(<<
                                        "I","n","-","R","e","p","l","y","-","T","o">>))

\* C4 as stated: the send request of a reply is pinned to the threadId of the
\* fetched message, its "to" is the "from" value of that message, and References
\* and In-Reply-To both equal the Message-Id value of that message when that
\* header is present and are both absent when it is not.
C4_ThreadAndLinkage ==
  \A t \in Workers :
    ReplySent(t) =>
      /\ Pinned(t)
      /\ Carries(Wire(t), Str(<<"t","o">>), RepliedFrom(t))
      /\ HasHeader(RepliedHeaders(t), K_message_id) => Linked(Wire(t), RepliedMessageId(t))
      /\ ~HasHeader(RepliedHeaders(t), K_message_id) => Unlinked(Wire(t))

\* the first Message-Id header of the message replied to has a non-empty value
HasMessageId(t) ==
  HasHeader(RepliedHeaders(t), K_message_id) /\ RepliedMessageId(t) # <<>>

\* the values that go into the reply are each one line without a surrogate
ValuesOneLine(t) ==
  /\ OneLine(RepliedFrom(t))
  /\ OneLine(RepliedSubject(t))
  /\ HasMessageId(t) => OneLine(RepliedMessageId(t))

\* the fields of a reply, in order
ReplyFields(linked) ==
  MimeFields \o << Str(<<"t","o">>), Str(<<"s","u","b","j","e","c","t">>) >>
  \o IF linked THEN << Str(<<"R","e","f","e","r","e","n","c","e","s">>), Str(<<"I","n","-","R",
                                        "e","p","l","y","-","T","o">>) >> ELSE << >>

\* C4 as amended: the send request of a reply is pinned to the threadId of the
\* fetched message; when the from, subject and Message-Id values that go into
\* the reply are each one line without a surrogate, the message sent has the
\* three MIME fields, to, subject and, exactly when the first Message-Id header
\* has a non-empty value, References and In-Reply-To, in this order and no
\* other field; to carries the from value and both threading fields carry the
\* Message-Id value, as read after unfolding and word decoding.
C4_ThreadAndLinkageOnTheWire ==
  \A t \in Workers :
    ReplySent(t) =>
      /\ Pinned(t)
      /\ ValuesOneLine(t) =>
           /\ FieldNames(Wire(t)) = ReplyFields(HasMessageId(t))
           /\ Carries(Wire(t), Str(<<"t","o">>), RepliedFrom(t))
           /\ HasMessageId(t) => Linked(Wire(t), RepliedMessageId(t))

\* a reply into thread t2 to a sender whose name is not ASCII, which carries the
\* Message-Id of the original, was accepted
C4_Witness ==
  \E t \in Workers :
    /\ ReplySent(t)
    /\ responses[t][1].val.threadId = "t2"
    /\ SendReq(t).body.threadId = "t2"
    /\ ~IsAscii(RepliedFrom(t))
    /\ HasMessageId(t)
    /\ FieldBody(Wire(t), Str(<<"I","n","-","R","e","p","l","y","-","T","o">>)) = Str(<<"<","1",
                                        "@","x",">">>)
    /\ pc[t] = "returned"
    /\ result[t].status = "success"

----------------------------------------------------------------------------
(* C6 *)

BeginsWithRe(s) == Len(s) >= 3 /\ SubSeq(s, 1, 3) = Str(<<"R","e",":">>)

\* the subject rule of the specification
SubjectRule(s) == IF BeginsWithRe(s) THEN s ELSE Str(<<"R","e",":"," ">>) \o s

\* the subject out is what the rule makes of s, begins with "Re:" and is left
\* as it is by the rule
FollowsRule(out, s) ==
  /\ out = SubjectRule(s)
  /\ BeginsWithRe(out)
  /\ SubjectRule(out) = out

\* C6: the subject of a reply is the subject of the message replied to ("No
\* Subject" when it has none) unchanged when that begins with the exact prefix
\* "Re:", and "Re: " followed by it otherwise; so it always begins with "Re:" and
\* the rule leaves it unchanged when applied again.  The subject is read from
\* the message sent, for every subject of one line.
C6_ReplySubject ==
  \A t \in Workers :
    (ReplySent(t) /\ OneLine(RepliedSubject(t))) =>
      /\ HasField(Wire(t), Str(<<"s","u","b","j","e","c","t">>))
      /\ FollowsRule(FieldText(Wire(t), Str(<<"s","u","b","j","e","c","t">>), SubjectRule(RepliedSubject(t))),
                     RepliedSubject(t))

\* a reply to "Re: Hi" went out as "Re: Hi"
C6_Witness ==
  \E t \in Workers :
    /\ ReplySent(t)
    /\ HasHeader(RepliedHeaders(t), K_subject)
    /\ RepliedSubject(t) = Str(<<"R","e",":"," ","H","i">>)
    /\ FieldBody(Wire(t), Str(<<"s","u","b","j","e","c","t">>)) = Str(<<"R","e",":"," ","H","i">>)

----------------------------------------------------------------------------
(* C8 *)

\* list_emails returned and no store call of it raised
ListedAll(t) == Returned(t, "list_emails") /\ ~StoreFault(t)

ListedIds(t) == DictGet(responses[t][1].val, "messages", <<>>)

\* C8: when every store call succeeds, list_emails returns one record per id of
\* the list response, in the same order and with the same ids, after one list
\* call followed by one metadata get per id; for zero messages the result is
\* the empty sequence and no get is issued.
C8_ListByQuery ==
  \A t \in Workers :
    ListedAll(t) =>
      /\ "list" \in DOMAIN result[t]
      /\ Len(result[t].list) = Len(ListedIds(t))
      /\ \A k \in 1..Len(ListedIds(t)) : result[t].list[k].id = ListedIds(t)[k].id
      /\ Len(calls[t]) = 1 + Len(ListedIds(t))
      /\ calls[t][1] = ListRequest(args[t].max_results, args[t].query)
      /\ \A k \in 1..Len(ListedIds(t)) :
           calls[t][k + 1] = GetRequest(ListedIds(t)[k].id, "metadata")
      /\ ListedIds(t) = <<>> => result[t] = [list |-> <<>>]

\* two different messages were listed, m2 before m1
C8_Witness ==
  \E t \in Workers :
    /\ ListedAll(t)
    /\ Len(ListedIds(t)) = 2
    /\ ListedIds(t)[1].id = "m2" /\ ListedIds(t)[2].id = "m1"
    /\ result[t].list[1].id = "m2" /\ result[t].list[2].id = "m1"
    /\ result[t].list[1].thread_id # result[t].list[2].thread_id

----------------------------------------------------------------------------
(* C9 *)

\* what the read tools look up in the header list h
ReadLookups(h) ==
  [subject |-> ValueOr(h, K_subject, NoSubject),
   from |-> ValueOr(h, K_from, Unknown),
   date |-> ValueOr(h, K_date, Unknown)]

\* the three header fields of the record r
LookedUp(r) == [subject |-> r.subject, from |-> r.from, date |-> r.date]

\* the get answers of list_emails that were no fault, in order
AnsweredGets(t) ==
  SelectSeq(SubSeq(responses[t], 2, Len(responses[t])), LAMBDA a : ~IsExc(a))

\* what list_emails has looked up so far: the three headers of every message
\* it got, also when a later get raised
ListedLookups(t) ==
  [k \in 1..Len(AnsweredGets(t)) |-> ReadLookups(AnsweredGets(t)[k].val.payload.headers)]

\* the lookups of the four read tools: first match whatever the letter case,
\* else the sentinel, and no raise
ReadToolLookups(t) ==
  /\ op[t] = "list_emails" => lookups[t] = ListedLookups(t)
  /\ Fetched(t) =>
       /\ lookups[t] = <<ReadLookups(HeadersOf(t, 2))>>
       /\ result[t].status = "success" => LookedUp(result[t]) = lookups[t][1]
  /\ (Returned(t, "get_email_id") /\ Answered(t, 1) /\ Answered(t, 2)) =>
       /\ result[t].status = "success"
       /\ result[t].from = ValueOr(HeadersOf(t, 2), K_from, Unknown)
       /\ result[t].date = ValueOr(HeadersOf(t, 2), K_date, Unknown)
  /\ ListedAll(t) =>
       \A k \in 1..Len(ListedIds(t)) :
         LookedUp(result[t].list[k]) = ReadLookups(HeadersOf(t, k + 1))
  /\ pc[t] = "returned" => ~Raised(t)

\* C9 as stated: in every operation that reads headers, reply_to_email included,
\* a lookup yields the value of the first matching entry whatever the letter
\* case, and the sentinel ("No Subject" for subject, "Unknown" for from and
\* date) when no entry matches; the operation does not raise.
C9_LookupSentinels ==
  \A t \in Workers :
    /\ ReadToolLookups(t)
    /\ (Returned(t, "reply_to_email") /\ Answered(t, 1)) =>
         /\ lookups[t][1].subject = RepliedSubject(t)
         /\ lookups[t][1].from = ValueOr(RepliedHeaders(t), K_from, Unknown)

\* C9 as amended: as stated for the four read operations and for the subject
\* lookup of reply_to_email; in reply_to_email a lookup of from or Message-Id
\* that matches no entry yields no value (None), not "Unknown".
C9_LookupSentinelsOrNone ==
  \A t \in Workers :
    /\ ReadToolLookups(t)
    /\ (Returned(t, "reply_to_email") /\ Answered(t, 1)) =>
         /\ lookups[t][1].subject = RepliedSubject(t)
         /\ lookups[t][1].from = ValueOr(RepliedHeaders(t), K_from, None)
         /\ Truthy(lookups[t][1].from) =>
              lookups[t][1]["message-id"] = ValueOr(RepliedHeaders(t), K_message_id, None)

\* a fetch looked up a subject stored under an upper-case name behind another
\* header, and fell back to the sentinel for the sender
C9_Witness ==
  \E t \in Workers :
    /\ Fetched(t)
    /\ Len(HeadersOf(t, 2)) = 2
    /\ HeadersOf(t, 2)[1].name = Str(<<"D","A","T","E">>)
    /\ HeadersOf(t, 2)[2].name = Str(<<"S","U","B","J","E","C","T">>)
    /\ result[t].status = "success"
    /\ result[t].subject = HeadersOf(t, 2)[2].value
    /\ result[t].from = Unknown

----------------------------------------------------------------------------
(* C10 *)

\* the send requests the invocation has issued
SendsOf(t) == Cardinality(SendCalls(calls[t]))

\* cc or bcc is nothing, or addresses of one line each
PlainAddresses(v) ==
  \/ v = None
  \/ v[1] = "str" /\ OneLine(v[2])
  \/ v[1] = "list" /\ \A k \in 1..Len(v[2]) : OneLine(v[2][k])

\* send_email was called with header values of one line each and a body
\* without a surrogate
MailInOrder(t) ==
  /\ op[t] = "send_email"
  /\ OneLine(args[t].to) /\ OneLine(args[t].subject)
  /\ PlainAddresses(args[t].cc) /\ PlainAddresses(args[t].bcc)
  /\ ~HasSurrogates(args[t].body)

\* reply_to_email got a message with a sender, whose values that go into the
\* reply are one line each, and the reply text has no surrogate
ReplyInOrder(t) ==
  /\ Replied(t)
  /\ HasHeader(RepliedHeaders(t), K_from) /\ RepliedFrom(t) # <<>>
  /\ ValuesOneLine(t)
  /\ ~HasSurrogates(args[t].reply_text)

\* what holds of the invocation of thread t at every moment
SendsOnce(t) ==
  /\ SendsOf(t) <= 1
  /\ op[t] \in ReadTools => SendsOf(t) = 0
  /\ MailInOrder(t) => SendsOf(t) = 1
  /\ ReplyInOrder(t) => SendsOf(t) = 1
  /\ (pc[t] = "returned" /\ op[t] \in WriteTools /\ SendsOf(t) = 0) => IsError(result[t])
  /\ (pc[t] = "returned" /\ SendsOf(t) = 1) =>
       /\ SendCalls(calls[t]) = {Len(calls[t])}
       /\ Len(responses[t]) = Len(calls[t])

\* the threads that issue a send request in the step
NewSenders == { t \in Workers : SendsOf(t)' > SendsOf(t) }

\* one step: the store receives one send request from each thread that issues
\* one, and from no other
SendsOfStep ==
  /\ sendTotal' = sendTotal + Cardinality(NewSenders)
  /\ \A t \in NewSenders : op'[t] \in WriteTools /\ SendsOf(t)' = 1

\* C10: every invocation of send_email or reply_to_email issues at most one send
\* request, also when the send fails or its response lacks an id, and exactly
\* one whenever its message can be written, whatever was sent before, so n calls
\* make n transmissions; the read operations issue none; the sends issued never
\* outnumber the invocations of the two senders.
C10_NoRetry ==
  /\ [](sendTotal <= writerCalls /\ \A t \in Workers : SendsOnce(t))
  /\ [][SendsOfStep]_vars

\* two calls of send_email with the same arguments ran side by side and each
\* made one transmission
C10_Witness ==
  /\ Returned("t1", "send_email") /\ Returned("t2", "send_email")
  /\ args["t1"] = args["t2"]
  /\ SendsOf("t1") = 1 /\ SendsOf("t2") = 1
  /\ writerCalls = 2
  /\ sendTotal = 2

====
